---- MODULE Spec2Model ----
(***************************************************************************)
(* ESMA SQL multi-agent: the schema validator, the SQL executor, the       *)
(* warehouse client, the linear SQL agent, the ReAct agent and the HTTP    *)
(* layer, modelled from the Python sources.                                *)
(*                                                                         *)
(* Text (SQL, error messages) is a sequence of one-character strings, so   *)
(* that case folding, substring tests and the regular expressions of the   *)
(* code are computed on characters.                                        *)
(***************************************************************************)
EXTENDS Integers, Sequences, FiniteSets, TLC

\* ------------------------------------------------------------------------
\* Text primitives (Python str methods and the re module as the code uses
\* them)
\* ------------------------------------------------------------------------

LowerLetters == {"a","b","c","d","e","f","g","h","i","j","k","l","m","n","o","p","q","r","s","t","u","v","w","x","y","z"}

UpperLetters == {"A","B","C","D","E","F","G","H","I","J","K","L","M","N","O","P","Q","R","S","T","U","V","W","X","Y","Z"}

Digits == {"0","1","2","3","4","5","6","7","8","9"}

IsLower(c) == c \in LowerLetters

IsUpper(c) == c \in UpperLetters

ToUpper ==
  ("a" :> "A") @@ ("b" :> "B") @@ ("c" :> "C") @@ ("d" :> "D") @@ ("e" :> "E") @@ ("f" :> "F") @@
  ("g" :> "G") @@ ("h" :> "H") @@ ("i" :> "I") @@ ("j" :> "J") @@ ("k" :> "K") @@ ("l" :> "L") @@
  ("m" :> "M") @@ ("n" :> "N") @@ ("o" :> "O") @@ ("p" :> "P") @@ ("q" :> "Q") @@ ("r" :> "R") @@
  ("s" :> "S") @@ ("t" :> "T") @@ ("u" :> "U") @@ ("v" :> "V") @@ ("w" :> "W") @@ ("x" :> "X") @@
  ("y" :> "Y") @@ ("z" :> "Z")

ToLower ==
  ("A" :> "a") @@ ("B" :> "b") @@ ("C" :> "c") @@ ("D" :> "d") @@ ("E" :> "e") @@ ("F" :> "f") @@
  ("G" :> "g") @@ ("H" :> "h") @@ ("I" :> "i") @@ ("J" :> "j") @@ ("K" :> "k") @@ ("L" :> "l") @@
  ("M" :> "m") @@ ("N" :> "n") @@ ("O" :> "o") @@ ("P" :> "p") @@ ("Q" :> "q") @@ ("R" :> "r") @@
  ("S" :> "s") @@ ("T" :> "t") @@ ("U" :> "u") @@ ("V" :> "v") @@ ("W" :> "w") @@ ("X" :> "x") @@
  ("Y" :> "y") @@ ("Z" :> "z")

\* str.upper() on one character
UpperChar(c) == IF IsLower(c) THEN ToUpper[c] ELSE c

\* str.lower() on one character
LowerChar(c) == IF IsUpper(c) THEN ToLower[c] ELSE c

\* str.upper()
Upper(s) == [i \in 1..Len(s) |-> UpperChar(s[i])]

\* str.lower()
Lower(s) == [i \in 1..Len(s) |-> LowerChar(s[i])]

\* regex \w
IsWordChar(c) == IsLower(c) \/ IsUpper(c) \/ c \in Digits \/ c = "_"

\* regex \s
IsSpace(c) == c \in {" ", "\n", "\t"}

\* regex [a-zA-Z0-9_\-]
IsTableChar(c) == IsLower(c) \/ IsUpper(c) \/ c \in Digits \/ c \in {"_", "-"}

\* sub occurs in s starting at position i
MatchAt(s, sub, i) ==
  /\ i >= 1
  /\ i + Len(sub) - 1 <= Len(s)
  /\ \A k \in 1..Len(sub) : s[i + k - 1] = sub[k]

\* Python: sub in s
Contains(s, sub) == \E i \in 1..(Len(s) + 1) : MatchAt(s, sub, i)

\* regex \b between positions i-1 and i of s (i in 1..Len(s)+1)
WordBoundary(s, i) ==
  LET before == i > 1 /\ IsWordChar(s[i - 1])
      after  == i <= Len(s) /\ IsWordChar(s[i])
  IN before # after

\* re.search(r'\b' + word + r'\b', s) is not None
SearchWholeWord(s, word) ==
  \E i \in 1..(Len(s) + 1) :
    /\ MatchAt(s, word, i)
    /\ WordBoundary(s, i)
    /\ WordBoundary(s, i + Len(word))

\* str.rstrip(';')
RECURSIVE RStripSemicolon(_)
RStripSemicolon(s) ==
  IF Len(s) > 0 /\ s[Len(s)] = ";"
  THEN RStripSemicolon(SubSeq(s, 1, Len(s) - 1))
  ELSE s

\* str.strip() == ""  (used as: not sql_query.strip())
IsBlank(s) == \A i \in 1..Len(s) : IsSpace(s[i])

\* the elements of a sequence
Range(s) == {s[i] : i \in 1..Len(s)}

\* a list holding the elements of a set once each, in some order
RECURSIVE SetToSeq(_)
SetToSeq(S) ==
  IF S = {} THEN <<>>
  ELSE LET x == CHOOSE y \in S : TRUE IN <<x>> \o SetToSeq(S \ {x})

\* concatenation of a sequence of texts
RECURSIVE Concat(_)
Concat(ps) == IF ps = <<>> THEN <<>> ELSE Head(ps) \o Concat(Tail(ps))

\* ------------------------------------------------------------------------
\* Warehouse (BigQuery) as the tools see it
\* ------------------------------------------------------------------------

\* names the SQL texts of the model refer to
T1 == <<"t","1">>

T2 == <<"t","2">>

\* db.get_usable_table_names() of the live dataset
UsableTables == {T1}

\* texts of the exceptions the warehouse driver raises
MsgTimeout == <<"R","e","a","d"," ","t","i","m","e","o","u","t">>

MsgPermission == <<"P","e","r","m","i","s","s","i","o","n"," ","b","i","g","q","u","e","r","y",".","j","o","b","s",".","c","r","e","a","t","e"," ","m","i","s","s","i","n","g">>

MsgAccessDenied == <<"A","c","c","e","s","s"," ","D","e","n","i","e","d",":"," ","d","a","t","a","s","e","t">>

MsgNotFound == <<"T","a","b","l","e"," ","t","9"," ","n","o","t"," ","f","o","u","n","d">>

MsgSyntax == <<"S","y","n","t","a","x"," ","e","r","r","o","r"," ","a","t"," ","[","1",":","1","]">>

MsgOther == <<"i","n","t","e","r","n","a","l"," ","e","r","r","o","r">>

\* ------------------------------------------------------------------------
\* SchemaValidator (esma/tools/schema_validator.py)
\* ------------------------------------------------------------------------

FORBIDDEN_OPERATIONS ==
  << <<"I","N","S","E","R","T">>,
     <<"U","P","D","A","T","E">>,
     <<"D","E","L","E","T","E">>,
     <<"D","R","O","P">>,
     <<"A","L","T","E","R">>,
     <<"T","R","U","N","C","A","T","E">>,
     <<"C","R","E","A","T","E">>,
     <<"R","E","P","L","A","C","E">> >>

\* the operations of FORBIDDEN_OPERATIONS[1..n] that match, in list order
ForbiddenMatches(query_upper) ==
  SelectSeq(FORBIDDEN_OPERATIONS, LAMBDA op : SearchWholeWord(query_upper, op))

\* mutant: the query is matched without being upper-cased first
check_forbidden_operations_case_sensitive(sql_query) ==
  LET found == ForbiddenMatches(sql_query)
  IN IF found # <<>>
     THEN [valid |-> FALSE,
           error |-> [kind |-> "Forbidden operation", operation |-> Head(found)]]
     ELSE [valid |-> TRUE]

check_forbidden_operations(sql_query) ==
  LET query_upper == Upper(sql_query)
      found == ForbiddenMatches(query_upper)
  IN IF found # <<>>
     THEN [valid |-> FALSE,
           error |-> [kind |-> "Forbidden operation", operation |-> Head(found)]]
     ELSE [valid |-> TRUE]

\* end of the longest run of characters satisfying the class, starting at i
\* (i - 1 when s[i] is not in the class)
RECURSIVE RunEnd(_, _, _)
RunEnd(s, i, isTable) ==
  IF i <= Len(s) /\ (IF isTable THEN IsTableChar(s[i]) ELSE IsSpace(s[i]))
  THEN RunEnd(s, i + 1, isTable)
  ELSE i - 1

\* re.findall(keyword + r"\s+([a-zA-Z0-9_\-]+)", s, re.IGNORECASE) from
\* position i on: the captured groups of the non-overlapping matches
RECURSIVE FindAllFrom(_, _, _)
FindAllFrom(s, keyword, i) ==
  IF i > Len(s) THEN <<>>
  ELSE IF /\ i + Len(keyword) - 1 <= Len(s)
          /\ \A k \in 1..Len(keyword) : UpperChar(s[i + k - 1]) = keyword[k]
       THEN LET spEnd  == RunEnd(s, i + Len(keyword), FALSE)
                tabEnd == RunEnd(s, spEnd + 1, TRUE)
            IN IF spEnd >= i + Len(keyword) /\ tabEnd >= spEnd + 1
               THEN <<SubSeq(s, spEnd + 1, tabEnd)>>
                    \o FindAllFrom(s, keyword, tabEnd + 1)
               ELSE FindAllFrom(s, keyword, i + 1)
       ELSE FindAllFrom(s, keyword, i + 1)

KwFROM == <<"F","R","O","M">>

KwJOIN == <<"J","O","I","N">>

\* mutant: the matches are returned without list(set(...))
extract_tables_no_dedup(sql_query) ==
  FindAllFrom(sql_query, KwFROM, 1) \o FindAllFrom(sql_query, KwJOIN, 1)

extract_tables(sql_query) ==
  LET from_matches == FindAllFrom(sql_query, KwFROM, 1)
      join_matches == FindAllFrom(sql_query, KwJOIN, 1)
      all_tables   == from_matches \o join_matches
  IN SetToSeq(Range(all_tables))

\* mutant: a failed introspection reports every requested table as present
validate_tables_exist_open(table_names, introspection_ok) ==
  IF introspection_ok
  THEN [t \in Range(table_names) |-> t \in UsableTables]
  ELSE [t \in Range(table_names) |-> TRUE]

\* BigQueryClient.validate_tables_exist: introspection_ok is whether
\* self.db.get_usable_table_names() returned (TRUE) or raised (FALSE)
validate_tables_exist(table_names, introspection_ok) ==
  IF introspection_ok
  THEN [t \in Range(table_names) |-> t \in UsableTables]
  ELSE [t \in Range(table_names) |-> FALSE]

validate_tables(table_names, introspection_ok) ==
  IF table_names = <<>>
  THEN [t \in {} |-> FALSE]
  ELSE validate_tables_exist(table_names, introspection_ok)

\* dry_run.raised is whether client.db.run(dry_run_query) raised, and
\* dry_run.msg the text of the exception
validate_query_structure(sql_query, dry_run) ==
  IF ~dry_run.raised
  THEN [valid |-> TRUE, errors |-> <<>>, warnings |-> <<>>]
  ELSE LET error_msg == dry_run.msg
           low == Lower(error_msg)
       IN IF \/ Contains(low, <<"n","o","t"," ","f","o","u","n","d">>)
             \/ Contains(low, <<"d","o","e","s"," ","n","o","t"," ","e","x","i","s","t">>)
             \/ Contains(low, <<"u","n","r","e","c","o","g","n","i","z","e","d"," ","n","a","m","e">>)
             \/ Contains(low, <<"n","a","m","e"," ","n","o","t"," ","f","o","u","n","d">>)
             \/ Contains(low, <<"i","n","v","a","l","i","d"," ","f","i","e","l","d">>)
             \/ Contains(low, <<"n","o"," ","s","u","c","h"," ","f","i","e","l","d">>)
          THEN [valid |-> FALSE,
                errors |-> <<[kind |-> "Column validation failed", msg |-> error_msg]>>,
                warnings |-> <<>>]
          ELSE IF Contains(low, <<"s","y","n","t","a","x"," ","e","r","r","o","r">>)
          THEN [valid |-> FALSE,
                errors |-> <<[kind |-> "SQL syntax error", msg |-> error_msg]>>,
                warnings |-> <<>>]
          ELSE [valid |-> FALSE,
                errors |-> <<[kind |-> "Query validation failed", msg |-> error_msg]>>,
                warnings |-> <<>>]

\* mutant: the forbidden-operation error is left out of the response
ForbiddenResponse_no_errors(operation_check) ==
  [valid |-> FALSE, errors |-> <<>>, warnings |-> <<>>]

\* the response returned when a forbidden operation was found
ForbiddenResponse(operation_check) ==
  [valid |-> FALSE, errors |-> <<operation_check.error>>, warnings |-> <<>>]

\* f"SELECT * FROM ({sql_query}) AS validation_check LIMIT 0"
DryRunQuery(sql_query) ==
  <<"S","E","L","E","C","T"," ","*"," ","F","R","O","M"," ","(">>
  \o sql_query
  \o <<")"," ","A","S"," ","v","a","l","i","d","a","t","i","o","n","_","c","h","e","c","k"," ","L","I","M","I","T"," ","0">>

\* SchemaValidator._run after the forbidden-operation check passed: the
\* client lookup, the table check and, with no table missing, the dry run
RunChecks(sql_query, env) ==
  LET tables == extract_tables(sql_query)
      table_validation == validate_tables(tables, env.introspection_ok)
      invalid_tables == SelectSeq(tables, LAMBDA t : ~table_validation[t])
      table_errors ==
        IF invalid_tables # <<>>
        THEN <<[kind |-> "Tables not found", tables |-> invalid_tables]>>
        ELSE <<>>
      structure_validation ==
        IF table_errors = <<>>
        THEN validate_query_structure(sql_query, env.dry_run)
        ELSE [valid |-> TRUE, errors |-> <<>>, warnings |-> <<>>]
      errors ==
        IF ~structure_validation.valid
        THEN table_errors \o structure_validation.errors
        ELSE table_errors
      warnings ==
        IF ~structure_validation.valid
        THEN structure_validation.warnings
        ELSE <<>>
  IN [response |->
        [valid |-> Len(errors) = 0,
         errors |-> errors,
         warnings |-> warnings,
         tables_checked |-> tables,
         table_validation |-> table_validation],
      accesses |->
        <<[op |-> "get_client", sql |-> <<>>]>>
        \o (IF tables # <<>>
            THEN <<[op |-> "get_usable_table_names", sql |-> <<>>]>>
            ELSE <<>>)
        \o (IF table_errors = <<>>
            THEN <<[op |-> "dry_run", sql |-> DryRunQuery(sql_query)]>>
            ELSE <<>>)]

\* mutant: a forbidden operation does not end the validation
SchemaValidator_run_no_short_circuit(sql_query, env) ==
  LET operation_check == check_forbidden_operations(sql_query)
      checks == RunChecks(sql_query, env)
  IN IF ~operation_check.valid
     THEN [response |->
             [valid |-> FALSE,
              errors |-> <<operation_check.error>> \o checks.response.errors,
              warnings |-> <<>>],
           accesses |-> checks.accesses]
     ELSE checks

\* SchemaValidator._run.  env.introspection_ok and env.dry_run are the
\* outcomes of the two warehouse calls, should they be made.  The result
\* pairs the JSON response with the warehouse accesses the call performed.
SchemaValidator_run(sql_query, env) ==
  LET operation_check == check_forbidden_operations(sql_query)
  IN IF ~operation_check.valid
     THEN [response |-> ForbiddenResponse(operation_check), accesses |-> <<>>]
     ELSE RunChecks(sql_query, env)

\* ------------------------------------------------------------------------
\* BigQueryClient.execute_query and SQLExecutor
\* (esma/utils/bigquery_client.py, esma/tools/sql_executor.py)
\* ------------------------------------------------------------------------

\* Optional[...] values: None, or the value wrapped
None == <<>>

Some(x) == <<x>>

\* settings.sql_result_limit
sql_result_limit == 500

\* settings.max_retries
max_retries == 3

DigitText == <<"0","1","2","3","4","5","6","7","8","9">>

\* str(n) for a natural number n
RECURSIVE IntToText(_)
IntToText(n) ==
  IF n < 10 THEN <<DigitText[n + 1]>>
  ELSE IntToText(n \div 10) \o <<DigitText[(n % 10) + 1]>>

KwLIMIT == <<"L","I","M","I","T">>

\* f"{sql.rstrip(';')} LIMIT {limit};"
WithLimit(sql, limit) ==
  RStripSemicolon(sql) \o <<" ">> \o KwLIMIT \o <<" ">> \o IntToText(limit) \o <<";">>

\* BigQueryClient.execute_query: the SQL text handed to self.db.run
execute_query_sql(sql) ==
  IF sql_result_limit # 0 /\ ~Contains(Upper(sql), KwLIMIT)
  THEN WithLimit(sql, sql_result_limit)
  ELSE sql

\* mutant: the message is matched without being lower-cased first
classify_error_case_sensitive(error_msg) ==
  LET error_lower == error_msg
  IN IF Contains(error_lower, <<"t","i","m","e","o","u","t">>)
     THEN "TIMEOUT"
     ELSE IF \/ Contains(error_lower, <<"p","e","r","m","i","s","s","i","o","n">>)
             \/ Contains(error_lower, <<"a","c","c","e","s","s"," ","d","e","n","i","e","d">>)
     THEN "PERMISSION_ERROR"
     ELSE IF \/ Contains(error_lower, <<"q","u","o","t","a">>)
             \/ Contains(error_lower, <<"r","a","t","e"," ","l","i","m","i","t">>)
     THEN "QUOTA_EXCEEDED"
     ELSE IF \/ Contains(error_lower, <<"c","o","n","n","e","c","t","i","o","n">>)
             \/ Contains(error_lower, <<"n","e","t","w","o","r","k">>)
     THEN "CONNECTION_ERROR"
     ELSE IF Contains(error_lower, <<"s","y","n","t","a","x">>)
     THEN "SYNTAX_ERROR"
     ELSE IF \/ Contains(error_lower, <<"n","o","t"," ","f","o","u","n","d">>)
             \/ Contains(error_lower, <<"d","o","e","s"," ","n","o","t"," ","e","x","i","s","t">>)
     THEN "RESOURCE_NOT_FOUND"
     ELSE "EXECUTION_ERROR"

classify_error(error_msg) ==
  LET error_lower == Lower(error_msg)
  IN IF Contains(error_lower, <<"t","i","m","e","o","u","t">>)
     THEN "TIMEOUT"
     ELSE IF \/ Contains(error_lower, <<"p","e","r","m","i","s","s","i","o","n">>)
             \/ Contains(error_lower, <<"a","c","c","e","s","s"," ","d","e","n","i","e","d">>)
     THEN "PERMISSION_ERROR"
     ELSE IF \/ Contains(error_lower, <<"q","u","o","t","a">>)
             \/ Contains(error_lower, <<"r","a","t","e"," ","l","i","m","i","t">>)
     THEN "QUOTA_EXCEEDED"
     ELSE IF \/ Contains(error_lower, <<"c","o","n","n","e","c","t","i","o","n">>)
             \/ Contains(error_lower, <<"n","e","t","w","o","r","k">>)
     THEN "CONNECTION_ERROR"
     ELSE IF Contains(error_lower, <<"s","y","n","t","a","x">>)
     THEN "SYNTAX_ERROR"
     ELSE IF \/ Contains(error_lower, <<"n","o","t"," ","f","o","u","n","d">>)
             \/ Contains(error_lower, <<"d","o","e","s"," ","n","o","t"," ","e","x","i","s","t">>)
     THEN "RESOURCE_NOT_FOUND"
     ELSE "EXECUTION_ERROR"

EmptyQueryError == <<"S","Q","L"," ","q","u","e","r","y"," ","c","a","n","n","o","t"," ","b","e"," ","e","m","p","t","y">>

\* SQLExecutor._run.  run.raised is whether client.execute_query raised,
\* run.msg the text of the exception, run.results the text it returned.
\* The result pairs the JSON response with the warehouse accesses.
SQLExecutor_run(sql_query, run) ==
  IF IsBlank(sql_query)
  THEN [response |-> [success |-> FALSE,
                      error |-> Some(EmptyQueryError),
                      results |-> None],
        accesses |-> <<>>]
  ELSE LET sent == <<[op |-> "get_client", sql |-> <<>>],
                     [op |-> "execute", sql |-> execute_query_sql(sql_query)]>>
       IN IF ~run.raised
          THEN [response |-> [success |-> TRUE,
                              error |-> None,
                              results |-> Some(run.results),
                              query_executed |-> sql_query],
                accesses |-> sent]
          ELSE [response |-> [success |-> FALSE,
                              error |-> Some(run.msg),
                              error_type |-> classify_error(run.msg),
                              results |-> None,
                              query_attempted |-> sql_query],
                accesses |-> sent]

\* ------------------------------------------------------------------------
\* Bounds and input sets
\* ------------------------------------------------------------------------

\* most pieces a SQL text of the tool calls is put together from
MaxPieces == 2

\* most pieces an exception text is put together from
MaxMsgPieces == 2

\* the texts made of 1..n pieces
RECURSIVE TextsOf(_, _)
TextsOf(pieces, n) ==
  IF n = 0 THEN {<<>>}
  ELSE LET shorter == TextsOf(pieces, n - 1)
       IN shorter \cup {t \o p : t \in shorter, p \in pieces}

ValidatorPieces ==
  { <<" ","f","r","o","m"," ","t","1">>, <<" ","J","O","I","N"," ","t","2">>, <<" ","F","r","o","m"," ","t","2">>,
    <<"i","n","s","e","r","t">>, <<"U","p","d","a","t","e">>, <<"D","E","L","E","T","E">>, <<"d","r","o","p">>,
    <<"A","L","T","E","R">>, <<"t","r","u","n","c","a","t","e">>, <<"C","r","e","a","t","e">>, <<"R","E","P","L","A","C","E">>,
    <<";","d","e","l","e","t","e">>, <<"x","_">> }

ValidatorInputs == TextsOf(ValidatorPieces, MaxPieces)

ExecutorPieces ==
  { <<"s","e","l","e","c","t"," ","a">>, <<" ","l","i","m","i","t"," ","5">>, <<" ">>, <<";">> }

ExecutorInputs == TextsOf(ExecutorPieces, MaxPieces)

MsgPieces ==
  { <<"R","e","a","d"," ","T","i","m","e","o","u","t">>, <<" ","p","e","r","m","i","s","s","i","o","n">>, <<"A","c","c","e","s","s"," ","D","e","n","i","e","d">>, <<" ","q","u","o","t","a">>,
    <<" ","S","y","n","t","a","x"," ","e","r","r","o","r">>, <<" ","x">> }

Messages == TextsOf(MsgPieces, MaxMsgPieces)

\* exception texts of the dry run
DryRunMessages == {MsgNotFound, MsgSyntax, MsgOther}

\* outcomes of the warehouse calls of one validation
ValidatorEnvs ==
  { [introspection_ok |-> ok, dry_run |-> d] :
      ok \in BOOLEAN,
      d \in {[raised |-> FALSE, msg |-> <<>>]}
            \cup {[raised |-> TRUE, msg |-> m] : m \in DryRunMessages} }

\* texts db.run returns: no rows, some rows
Rows == <<"[","(","4","2",",",")","]">>

ResultTexts == {<<>>, Rows}

\* outcomes of client.execute_query
RunOutcomes ==
  {[raised |-> FALSE, msg |-> <<>>, results |-> r] : r \in ResultTexts}
  \cup {[raised |-> TRUE, msg |-> m, results |-> <<>>] : m \in Messages}

\* ------------------------------------------------------------------------
\* State
\* ------------------------------------------------------------------------

VARIABLES
  tool_pc,       \* direct tool call: "call" before the tool ran, "done" after
  tool_call,     \* direct tool call: the tool and its sql_query argument
                 \* (and, once the validator ran, the outcomes env that the
                 \* warehouse gave it)
  tool_result,   \* direct tool call: the response and the warehouse accesses
  state,         \* linear agent: the BaseSQLState held in the graph's channels
  lin_pc,        \* linear agent: the node (or conditional edge) to run next
  lin_steps,     \* linear agent: nodes run so far in this turn
  lin_retries,   \* linear agent: times the retry branch was taken in this turn
  lin_log,       \* linear agent: model and tool calls of this turn, in order
  llm_sql,       \* linear agent: the text of the last SQL-generation response
  llm_tables,    \* linear agent: how table selection goes in the turn's retries
  messages,      \* ReAct agent: the message history of the thread
  summary,       \* ReAct agent: the conversation summary of the thread
  react_pc,      \* ReAct agent: the node (or conditional edge) to run next
  react_rounds,  \* ReAct agent: tool rounds of this turn
  react_log,     \* ReAct agent: model and tool calls of this turn, in order
  _instances,    \* warehouse clients: BigQueryClient._instances
  clients,       \* warehouse clients: every BigQueryClient constructed so far
  threads,       \* warehouse clients: the place and locals of each thread
  engines,       \* warehouse clients: engines and wrappers created so far
  requests,      \* API: the place and locals of each HTTP request
  checkpoints,   \* API: what the agent's checkpointer holds, per key
  uuids,         \* API: thread ids generated so far
  chunk_pc,      \* chunking: "loop", "return", "done"
  pdf_tokens,    \* chunking: len(tokens), the length of the encoded PDF text
  chunk_i,       \* chunking: the loop variable i
  chunks,        \* chunking: the chunk records appended so far
  chunk_number,  \* chunking: the running chunk number
  first_chunks,  \* chunking: what an earlier run on the same text returned
  script,        \* offline scripts: the script run and what its calls will meet
  script_pc,     \* offline scripts: "main", "list", "files", ..., "exited"
  unit_i,        \* offline scripts: the file or table the loop is at
  results,       \* offline scripts: success or failure of each unit handled
  records,       \* offline scripts: the records collected for embedding
  script_log,    \* offline scripts: the network-calling steps made, in order
  main_return,   \* offline scripts: what main() returned
  exit_status    \* offline scripts: the exit status of the process

toolVars == <<tool_pc, tool_call, tool_result>>

linVars == <<state, lin_pc, lin_steps, lin_retries, lin_log, llm_sql, llm_tables>>

\* what a direct tool call, and what a turn of the linear agent, leaves alone
reactVars == <<messages, summary, react_pc, react_rounds, react_log>>

clientVars == <<_instances, clients, threads, engines>>

apiVars == <<requests, checkpoints, uuids>>

chunkVars == <<chunk_pc, pdf_tokens, chunk_i, chunks, chunk_number, first_chunks>>

scriptVars ==
  <<script, script_pc, unit_i, results, records, script_log, main_return, exit_status>>

notToolVars ==
  <<linVars, reactVars, clientVars, apiVars, chunkVars, scriptVars>>

notLinVars ==
  <<toolVars, reactVars, clientVars, apiVars, chunkVars, scriptVars>>

notReactVars ==
  <<toolVars, linVars, clientVars, apiVars, chunkVars, scriptVars>>

notClientVars ==
  <<toolVars, linVars, reactVars, apiVars, chunkVars, scriptVars>>

notApiVars ==
  <<toolVars, linVars, reactVars, clientVars, chunkVars, scriptVars>>

notChunkVars ==
  <<toolVars, linVars, reactVars, clientVars, apiVars, scriptVars>>

notScriptVars ==
  <<toolVars, linVars, reactVars, clientVars, apiVars, chunkVars>>

vars ==
  <<toolVars, linVars, reactVars, clientVars, apiVars, chunkVars, scriptVars>>

NoResult == [response |-> [valid |-> FALSE], accesses |-> <<>>]

\* ------------------------------------------------------------------------
\* Direct calls of the two SQL tools (as the tests make them)
\* ------------------------------------------------------------------------

ToolInit ==
  /\ tool_pc = "call"
  /\ tool_call \in
       {[tool |-> "schema_validator", sql_query |-> q] : q \in ValidatorInputs}
       \cup {[tool |-> "sql_executor", sql_query |-> q] : q \in ExecutorInputs}
  /\ tool_result = NoResult

ToolIdle ==
  /\ tool_pc = "idle"
  /\ tool_call = [tool |-> "none", sql_query |-> <<>>]
  /\ tool_result = NoResult

CallSchemaValidator ==
  /\ tool_pc = "call"
  /\ tool_call.tool = "schema_validator"
  /\ \E env \in ValidatorEnvs :
       /\ tool_result' = SchemaValidator_run(tool_call.sql_query, env)
       /\ tool_call' = [tool |-> tool_call.tool,
                        sql_query |-> tool_call.sql_query,
                        env |-> env]
  /\ tool_pc' = "done"
  /\ UNCHANGED notToolVars

CallSQLExecutor ==
  /\ tool_pc = "call"
  /\ tool_call.tool = "sql_executor"
  /\ \E run \in RunOutcomes :
       tool_result' = SQLExecutor_run(tool_call.sql_query, run)
  /\ tool_pc' = "done"
  /\ UNCHANGED <<tool_call, notToolVars>>

ToolNext == CallSchemaValidator \/ CallSQLExecutor

\* ------------------------------------------------------------------------
\* Linear SQL agent (esma/agents/baseLinear.py, esma/memory/state_models.py)
\* ------------------------------------------------------------------------

\* BaseSQLState with its defaults (messages, conversation_id and query are
\* fixed during a turn and left out)
InitialState ==
  [selected_tables |-> <<>>,
   retrieved_columns |-> <<>>,
   vector_search_metadata |-> None,
   generated_sql |-> None,
   sql_validation_result |-> None,
   query_results |-> None,
   tools_executed |-> <<>>,
   final_answer |-> None,
   error |-> None,
   retry_count |-> 0]

\* graph.compile() sets no recursion limit: a run is aborted with
\* GraphRecursionError after the framework's default of 25 steps
recursion_limit == 25

\* one model call at a node, as an entry of the log
LlmCall(node) == [tool |-> "llm", node |-> node]

\* n entries e
RECURSIVE Repeat(_, _)
Repeat(e, n) == IF n = 0 THEN <<>> ELSE <<e>> \o Repeat(e, n - 1)

\* table lists the model may answer select_tables with
TableLists == {<<T1>>, <<T1, T2>>}

\* what one select_tables model call can end in: the call raises, the
\* content is not JSON, or the content parses to a non-empty list, an empty
\* list, or something that is no list
SelectFailures == {"raise", "bad_json"}

SelectReturns ==
  {[kind |-> "list", tables |-> ts] : ts \in TableLists}
  \cup {[kind |-> "empty_list", tables |-> <<>>],
        [kind |-> "not_list", tables |-> <<>>]}

\* the failed attempts that precede a returning one, or fill the loop: up to
\* n attempts failing the same way
FailureRuns(kinds, n) ==
  {Repeat(kind, k) : kind \in kinds, k \in 0..n}

CountOf(run, kind) == Cardinality({i \in 1..Len(run) : run[i] = kind})

\* select_tables.  A failed attempt leaves the loop running; an attempt whose
\* content parses returns at once.  "table_selection" is appended after
\* every model call that returned, parsed or not.
select_tables_result(st, fails, ret) ==
  LET appended == Repeat("table_selection", CountOf(fails, "bad_json"))
  IN IF Len(fails) = max_retries
     THEN [st EXCEPT
             !.tools_executed = @ \o appended,
             !.error = Some([kind |-> "Could not determine relevant tables after multiple attempts"])]
     ELSE LET st1 == [st EXCEPT !.tools_executed = @ \o appended \o <<"table_selection">>]
          IN IF ret.kind = "list"
             THEN [st1 EXCEPT !.selected_tables = ret.tables]
             ELSE IF ret.kind = "empty_list"
             THEN [st1 EXCEPT !.error =
                     Some([kind |-> "No relevant tables found for this query in the database"])]
             ELSE [st1 EXCEPT !.error = Some([kind |-> "Invalid table selection format"])]

CanStep == lin_steps < recursion_limit

\* How one run of select_tables goes: whether the table descriptions load,
\* the failed attempts, and what the returning attempt parses to.
SelectRuns ==
  {[descriptions |-> FALSE, fails |-> <<>>, ret |-> [kind |-> "none", tables |-> <<>>]]}
  \cup {[descriptions |-> TRUE, fails |-> f, ret |-> [kind |-> "none", tables |-> <<>>]] :
          f \in {f \in FailureRuns(SelectFailures, max_retries) : Len(f) = max_retries}}
  \cup {[descriptions |-> TRUE, fails |-> f, ret |-> r] :
          f \in {f \in FailureRuns(SelectFailures, max_retries) : Len(f) < max_retries},
          r \in SelectReturns}

\* select_tables sends the same prompt in every pass of a turn.  Its first
\* run goes any way; the way its second run goes is taken to repeat in the
\* later passes.
select_tables ==
  /\ lin_pc = "select_tables"
  /\ CanStep
  /\ \E run \in SelectRuns :
       /\ lin_retries >= 2 => llm_tables = Some(run)
       /\ llm_tables' = IF lin_retries = 0 THEN None ELSE Some(run)
       /\ IF ~run.descriptions
          THEN \* prompt_loader.load_table_descriptions() raises FileNotFoundError
               /\ state' = [state EXCEPT !.error =
                              Some([kind |-> "Table descriptions configuration error"])]
               /\ UNCHANGED lin_log
          ELSE /\ state' = select_tables_result(state, run.fails, run.ret)
               /\ lin_log' = lin_log \o
                    Repeat(LlmCall("select_tables"),
                           IF Len(run.fails) = max_retries
                           THEN max_retries ELSE Len(run.fails) + 1)
  /\ lin_pc' = "retrieve_columns"
  /\ lin_steps' = lin_steps + 1
  /\ UNCHANGED <<lin_retries, llm_sql, notLinVars>>

\* columns the retriever may return
Columns == <<"P101">>

\* column_retriever._run: success with columns, success without columns,
\* a failure payload, or an exception
RetrieverOutcomes == {"columns", "no_columns", "failed", "raised"}

\* mutant: a retrieval that finds no columns sets no error
retrieve_columns_result_silent(st, outcome) ==
  IF outcome = "raised"
  THEN [st EXCEPT !.error = Some([kind |-> "Failed to retrieve column information"])]
  ELSE LET st1 == [st EXCEPT !.tools_executed = @ \o <<"column_retrieval">>]
       IN IF outcome = "columns"
          THEN [st1 EXCEPT
                  !.retrieved_columns = Columns,
                  !.vector_search_metadata =
                     Some([count |-> Len(Columns), tables_searched |-> st.selected_tables])]
          ELSE st1

retrieve_columns_result(st, outcome) ==
  IF outcome = "raised"
  THEN [st EXCEPT !.error = Some([kind |-> "Failed to retrieve column information"])]
  ELSE LET st1 == [st EXCEPT !.tools_executed = @ \o <<"column_retrieval">>]
       IN IF outcome = "columns"
          THEN [st1 EXCEPT
                  !.retrieved_columns = Columns,
                  !.vector_search_metadata =
                     Some([count |-> Len(Columns), tables_searched |-> st.selected_tables])]
          ELSE [st1 EXCEPT !.error =
                  Some([kind |-> "Column retrieval failed", info |-> outcome])]

\* mutant: retrieve_columns does not look at error before it retrieves
retrieve_columns_unguarded ==
  /\ lin_pc = "retrieve_columns"
  /\ CanStep
  /\ IF state.selected_tables = <<>>
     THEN UNCHANGED <<state, lin_log>>
     ELSE \E outcome \in RetrieverOutcomes :
            /\ state' = retrieve_columns_result(state, outcome)
            /\ lin_log' = Append(lin_log, [tool |-> "column_retriever"])
  /\ lin_pc' = "generate_sql"
  /\ lin_steps' = lin_steps + 1
  /\ UNCHANGED <<lin_retries, llm_sql, llm_tables, notLinVars>>

retrieve_columns ==
  /\ lin_pc = "retrieve_columns"
  /\ CanStep
  /\ IF state.error # None \/ state.selected_tables = <<>>
     THEN UNCHANGED <<state, lin_log>>
     ELSE \E outcome \in RetrieverOutcomes :
            /\ state' = retrieve_columns_result(state, outcome)
            /\ lin_log' = Append(lin_log, [tool |-> "column_retriever"])
  /\ lin_pc' = "generate_sql"
  /\ lin_steps' = lin_steps + 1
  /\ UNCHANGED <<lin_retries, llm_sql, llm_tables, notLinVars>>

\* SQL texts the model may answer generate_sql with
LlmSqlOutputs ==
  { <<"s","e","l","e","c","t"," ","a"," ","f","r","o","m"," ","t","1">>,
    <<"s","e","l","e","c","t"," ","a"," ","f","r","o","m"," ","t","1",";">>,
    <<"s","e","l","e","c","t"," ","a"," ","f","r","o","m"," ","t","1"," ","l","i","m","i","t"," ","5">>,
    <<"s","e","l","e","c","t"," ","a"," ","f","r","o","m"," ","t","1"," ","L","I","M","I","T"," ","5",";">>,
    <<"s","e","l","e","c","t"," ","l","i","m","i","t","_","a"," ","f","r","o","m"," ","t","1">>,
    <<"s","e","l","e","c","t"," ","a"," ","f","r","o","m"," ","t","2",";",";">>,
    <<"d","r","o","p"," ","t","1">> }

\* generate_sql: the limit injection on a non-empty response
generate_sql_text(sql) ==
  IF ~Contains(Upper(sql), KwLIMIT)
  THEN WithLimit(sql, sql_result_limit)
  ELSE sql

\* what one generate_sql model call can end in without returning: the call
\* raises, or the content is empty
GenerateFailures == {"raise", "empty"}

generate_sql ==
  /\ lin_pc = "generate_sql"
  /\ CanStep
  /\ IF state.error # None \/ state.retrieved_columns = <<>>
     THEN UNCHANGED <<state, lin_log, llm_sql>>
     ELSE \E fails \in FailureRuns(GenerateFailures, max_retries) :
            IF Len(fails) = max_retries
            THEN /\ state' = [state EXCEPT !.error =
                                Some([kind |-> "Failed to generate valid SQL query"])]
                 /\ lin_log' = lin_log \o Repeat(LlmCall("generate_sql"), max_retries)
                 /\ UNCHANGED llm_sql
            ELSE \E sql \in LlmSqlOutputs :
                   /\ state' = [state EXCEPT
                                  !.generated_sql = Some(generate_sql_text(sql)),
                                  !.tools_executed = @ \o <<"sql_generation">>]
                   /\ lin_log' = lin_log \o Repeat(LlmCall("generate_sql"), Len(fails) + 1)
                   /\ llm_sql' = Some(sql)
  /\ lin_pc' = "validate_sql"
  /\ lin_steps' = lin_steps + 1
  /\ UNCHANGED <<lin_retries, llm_tables, notLinVars>>

\* outcomes of the warehouse calls of a validation in the agents' runs: all
\* fine, the table listing fails, the dry run is refused
AgentValidatorEnvs ==
  { [introspection_ok |-> TRUE, dry_run |-> [raised |-> FALSE, msg |-> <<>>]],
    [introspection_ok |-> FALSE, dry_run |-> [raised |-> FALSE, msg |-> <<>>]],
    [introspection_ok |-> TRUE, dry_run |-> [raised |-> TRUE, msg |-> MsgSyntax]] }

validate_sql ==
  /\ lin_pc = "validate_sql"
  /\ CanStep
  /\ IF state.error # None \/ state.generated_sql = None \/ state.generated_sql = Some(<<>>)
     THEN UNCHANGED <<state, lin_log>>
     ELSE \E env \in AgentValidatorEnvs :
            LET result == SchemaValidator_run(state.generated_sql[1], env)
                validation == result.response
                st1 == [state EXCEPT
                          !.tools_executed = @ \o <<"sql_validation">>,
                          !.sql_validation_result = Some(validation)]
            IN /\ state' =
                    IF ~validation.valid
                    THEN [st1 EXCEPT !.error =
                            Some([kind |-> "SQL validation failed", info |-> validation.errors])]
                    ELSE st1
               /\ lin_log' = Append(lin_log,
                    [tool |-> "schema_validator",
                     sql_query |-> state.generated_sql[1],
                     valid |-> validation.valid,
                     accesses |-> result.accesses])
  /\ lin_pc' = "execute_query"
  /\ lin_steps' = lin_steps + 1
  /\ UNCHANGED <<lin_retries, llm_sql, llm_tables, notLinVars>>

\* exception texts of the warehouse in the agents' runs
AgentMessages == {MsgTimeout, MsgOther}

AgentRunOutcomes ==
  {[raised |-> FALSE, msg |-> <<>>, results |-> r] : r \in ResultTexts}
  \cup {[raised |-> TRUE, msg |-> m, results |-> <<>>] : m \in AgentMessages}

\* error_msg[:200]
Truncate200(msg) == SubSeq(msg, 1, IF Len(msg) < 200 THEN Len(msg) ELSE 200)

\* mutant: execute_query runs whatever SQL was generated, validated or not
execute_query_unvalidated ==
  /\ lin_pc = "execute_query"
  /\ CanStep
  /\ IF state.generated_sql = None
     THEN UNCHANGED <<state, lin_log>>
     ELSE \E run \in AgentRunOutcomes :
            LET result == SQLExecutor_run(state.generated_sql[1], run)
                response == result.response
                st1 == [state EXCEPT !.tools_executed = @ \o <<"sql_execution">>]
            IN /\ state' =
                    IF response.success
                    THEN [st1 EXCEPT !.query_results = Some(response)]
                    ELSE [st1 EXCEPT !.error =
                            Some([kind |-> "Query execution failed",
                                  info |-> <<IF "error_type" \in DOMAIN response
                                             THEN response.error_type
                                             ELSE "EXECUTION_ERROR",
                                             Truncate200(response.error[1])>>])]
               /\ lin_log' = Append(lin_log,
                    [tool |-> "sql_executor",
                     sql_query |-> state.generated_sql[1],
                     accesses |-> result.accesses])
  /\ lin_pc' = "should_retry"
  /\ lin_steps' = lin_steps + 1
  /\ UNCHANGED <<lin_retries, llm_sql, llm_tables, notLinVars>>

execute_query ==
  /\ lin_pc = "execute_query"
  /\ CanStep
  /\ IF \/ state.error # None
        \/ state.sql_validation_result = None
        \/ ~state.sql_validation_result[1].valid
     THEN UNCHANGED <<state, lin_log>>
     ELSE \E run \in AgentRunOutcomes :
            LET result == SQLExecutor_run(state.generated_sql[1], run)
                response == result.response
                st1 == [state EXCEPT !.tools_executed = @ \o <<"sql_execution">>]
            IN /\ state' =
                    IF response.success
                    THEN [st1 EXCEPT !.query_results = Some(response)]
                    ELSE [st1 EXCEPT !.error =
                            Some([kind |-> "Query execution failed",
                                  info |-> <<IF "error_type" \in DOMAIN response
                                             THEN response.error_type
                                             ELSE "EXECUTION_ERROR",
                                             Truncate200(response.error[1])>>])]
               /\ lin_log' = Append(lin_log,
                    [tool |-> "sql_executor",
                     sql_query |-> state.generated_sql[1],
                     accesses |-> result.accesses])
  /\ lin_pc' = "should_retry"
  /\ lin_steps' = lin_steps + 1
  /\ UNCHANGED <<lin_retries, llm_sql, llm_tables, notLinVars>>

\* should_retry: the route it returns and the state object as it leaves it
should_retry(st) ==
  IF st.error = None
  THEN [route |-> "continue", state |-> st]
  ELSE IF st.retry_count >= max_retries
  THEN [route |-> "continue", state |-> st]
  ELSE [route |-> "retry",
        state |-> [st EXCEPT
                     !.retry_count = @ + 1,
                     !.error = None,
                     !.generated_sql = None,
                     !.sql_validation_result = None,
                     !.query_results = None]]

\* the path map of add_conditional_edges("execute_query", should_retry, ...)
PathMap(route) == IF route = "retry" THEN "select_tables" ELSE "format_answer"

\* The conditional edge after execute_query.  should_retry is the edge's path
\* function: it is handed a state object built from the channels, and the
\* graph uses only the route it returns.  State reaches the channels only
\* through what a node returns, so the assignments should_retry makes to its
\* argument are not written back.
ConditionalEdge ==
  /\ lin_pc = "should_retry"
  /\ LET r == should_retry(state)
     IN /\ lin_pc' = PathMap(r.route)
        /\ lin_retries' = IF r.route = "retry" THEN lin_retries + 1 ELSE lin_retries
  /\ UNCHANGED <<state, lin_steps, lin_log, llm_sql, llm_tables, notLinVars>>

\* mutant: format_answer counts one more retry where the code resets the count
format_answer_result_counting(st, narration) ==
  LET st0 == [st EXCEPT !.retry_count = @ + 1]
  IN IF st0.error # None
     THEN [st0 EXCEPT !.final_answer =
             Some([kind |-> "I encountered an issue while processing your query",
                   info |-> st0.error[1]])]
     ELSE IF st0.query_results = None \/ st0.query_results[1].results \in {None, Some(<<>>)}
     THEN [st0 EXCEPT !.final_answer =
             Some([kind |-> "The query executed successfully but returned no results."])]
     ELSE IF narration = "answered"
     THEN [st0 EXCEPT
             !.final_answer = Some([kind |-> "narrated"]),
             !.tools_executed = @ \o <<"answer_formatting">>]
     ELSE [st0 EXCEPT !.final_answer =
             Some([kind |-> "Here are the query results",
                   info |-> st0.query_results[1].results[1]])]

\* format_answer.  narration is how the model call for the narrated answer
\* ended, should it be made.
format_answer_result(st, narration) ==
  LET st0 == [st EXCEPT !.retry_count = 0]
  IN IF st0.error # None
     THEN [st0 EXCEPT !.final_answer =
             Some([kind |-> "I encountered an issue while processing your query",
                   info |-> st0.error[1]])]
     ELSE IF st0.query_results = None \/ st0.query_results[1].results \in {None, Some(<<>>)}
     THEN [st0 EXCEPT !.final_answer =
             Some([kind |-> "The query executed successfully but returned no results."])]
     ELSE IF narration = "answered"
     THEN [st0 EXCEPT
             !.final_answer = Some([kind |-> "narrated"]),
             !.tools_executed = @ \o <<"answer_formatting">>]
     ELSE [st0 EXCEPT !.final_answer =
             Some([kind |-> "Here are the query results",
                   info |-> st0.query_results[1].results[1]])]

\* format_answer calls the model only with no error and a non-empty result
Narrates(st) ==
  /\ st.error = None
  /\ st.query_results # None
  /\ st.query_results[1].results \notin {None, Some(<<>>)}

format_answer ==
  /\ lin_pc = "format_answer"
  /\ CanStep
  /\ IF Narrates(state)
     THEN \E narration \in {"answered", "raised"} :
            /\ state' = format_answer_result(state, narration)
            /\ lin_log' = Append(lin_log, LlmCall("format_answer"))
     ELSE /\ state' = format_answer_result(state, "none")
          /\ UNCHANGED lin_log
  /\ lin_pc' = "END"
  /\ lin_steps' = lin_steps + 1
  /\ UNCHANGED <<lin_retries, llm_sql, llm_tables, notLinVars>>

\* the framework aborts the run when a node is due after the step limit
GraphRecursion ==
  /\ lin_pc \in {"select_tables", "retrieve_columns", "generate_sql",
                 "validate_sql", "execute_query", "format_answer"}
  /\ ~CanStep
  /\ lin_pc' = "GraphRecursionError"
  /\ UNCHANGED <<state, lin_steps, lin_retries, lin_log, llm_sql, llm_tables, notLinVars>>

LinearInit ==
  /\ state = InitialState
  /\ lin_pc = "select_tables"
  /\ lin_steps = 0
  /\ lin_retries = 0
  /\ lin_log = <<>>
  /\ llm_sql = None
  /\ llm_tables = None

LinearIdle ==
  /\ state = InitialState
  /\ lin_pc = "idle"
  /\ lin_steps = 0
  /\ lin_retries = 0
  /\ lin_log = <<>>
  /\ llm_sql = None
  /\ llm_tables = None

LinearNext ==
  \/ select_tables
  \/ retrieve_columns
  \/ generate_sql
  \/ validate_sql
  \/ execute_query
  \/ ConditionalEdge
  \/ format_answer
  \/ GraphRecursion

\* ------------------------------------------------------------------------
\* ReAct agent (esma/agents/baseReAct.py)
\* ------------------------------------------------------------------------

summarizer_token_threshold == 500000

\* most tool rounds the model asks for in one turn
MaxToolRounds == 2

\* token counts of a message's content: short, long
TokenSizes == {1, 250000}

HumanMessage(tokens) ==
  [type |-> "human", tool_calls |-> <<>>, content |-> [text |-> "question"],
   tokens |-> tokens]

\* an AI message without tool calls: the answer
AnswerMessage(tokens) ==
  [type |-> "ai", tool_calls |-> <<>>, content |-> [text |-> "answer"],
   tokens |-> tokens]

\* an AI message asking for tools; its content is empty
ToolCallMessage(calls) ==
  [type |-> "ai", tool_calls |-> calls, content |-> [text |-> ""], tokens |-> 0]

ToolMessage(call, response) ==
  [type |-> "tool", tool_calls |-> <<>>,
   content |-> [name |-> call.name, response |-> response], tokens |-> 1]

\* custom_tools: the tools bound to the model and run by the tool node
custom_tools ==
  {"table_description_retriever", "column_retriever", "schema_gatherer",
   "schema_validator", "sql_executor"}

ToolCall(name, sql_query) == [name |-> name, sql_query |-> sql_query]

SqlSelect == <<"s","e","l","e","c","t"," ","a"," ","f","r","o","m"," ","t","1">>

SqlDrop == <<"d","r","o","p"," ","t","1">>

\* the tool calls the model may put in one response
ToolCallLists ==
  { <<ToolCall("schema_validator", SqlSelect)>>,
    <<ToolCall("sql_executor", SqlSelect)>>,
    <<ToolCall("schema_validator", SqlSelect), ToolCall("sql_executor", SqlSelect)>>,
    <<ToolCall("schema_validator", SqlDrop)>>,
    <<ToolCall("sql_executor", SqlDrop)>>,
    <<ToolCall("column_retriever", <<>>)>> }

\* outcomes of the warehouse calls in a ReAct turn
ReactValidatorEnvs ==
  { [introspection_ok |-> TRUE, dry_run |-> [raised |-> FALSE, msg |-> <<>>]],
    [introspection_ok |-> TRUE, dry_run |-> [raised |-> TRUE, msg |-> MsgSyntax]] }

ReactRunOutcomes ==
  { [raised |-> FALSE, msg |-> <<>>, results |-> Rows],
    [raised |-> TRUE, msg |-> MsgOther, results |-> <<>>] }

\* what running one tool call can give: the tool's response and its
\* warehouse accesses.  The tool node hands the call's arguments to the
\* tool's _run; the tools other than the two SQL tools touch no warehouse.
ToolOutcomes(call) ==
  IF call.name = "schema_validator"
  THEN {SchemaValidator_run(call.sql_query, env) : env \in ReactValidatorEnvs}
  ELSE IF call.name = "sql_executor"
  THEN {SQLExecutor_run(call.sql_query, run) : run \in ReactRunOutcomes}
  ELSE {[response |-> [success |-> TRUE], accesses |-> <<>>]}

\* the entry of the log for one tool call
ToolLogEntry(call, outcome) ==
  IF call.name = "schema_validator"
  THEN [tool |-> call.name, sql_query |-> call.sql_query,
        valid |-> outcome.response.valid, accesses |-> outcome.accesses]
  ELSE IF call.name = "sql_executor"
  THEN [tool |-> call.name, sql_query |-> call.sql_query,
        accesses |-> outcome.accesses]
  ELSE [tool |-> call.name]

\* _agent_node: one model call with the tools bound; the response is
\* appended to the messages
agent_node ==
  /\ react_pc = "agent"
  /\ \E response \in {AnswerMessage(n) : n \in TokenSizes}
                     \cup {ToolCallMessage(calls) : calls \in ToolCallLists} :
       /\ response.tool_calls # <<>> => react_rounds < MaxToolRounds
       /\ messages' = Append(messages, response)
       /\ react_rounds' = IF response.tool_calls # <<>>
                          THEN react_rounds + 1 ELSE react_rounds
  /\ react_log' = Append(react_log, LlmCall("agent"))
  /\ react_pc' = "tool_router"
  /\ UNCHANGED <<summary, notReactVars>>

\* mutant: the route after the agent node ignores the tool calls
tool_router_to_check(msgs) == "check_summary"

\* _tool_router: the route taken after the agent node
tool_router(msgs) ==
  IF msgs[Len(msgs)].tool_calls = <<>> THEN "check_summary" ELSE "tools"

ToolRouterEdge ==
  /\ react_pc = "tool_router"
  /\ react_pc' = tool_router(messages)
  /\ UNCHANGED <<messages, summary, react_rounds, react_log, notReactVars>>

\* ToolNode(custom_tools): runs every tool call of the last message, whatever
\* the tools and their order, and appends one tool message per call
tools_node ==
  /\ react_pc = "tools"
  /\ LET calls == messages[Len(messages)].tool_calls
     IN \E outs \in [1..Len(calls) -> UNION {ToolOutcomes(calls[i]) : i \in 1..Len(calls)}] :
          /\ \A i \in 1..Len(calls) :
               /\ calls[i].name \in custom_tools
               /\ outs[i] \in ToolOutcomes(calls[i])
          /\ messages' = messages \o
               [i \in 1..Len(calls) |-> ToolMessage(calls[i], outs[i].response)]
          /\ react_log' = react_log \o
               [i \in 1..Len(calls) |-> ToolLogEntry(calls[i], outs[i])]
  /\ react_pc' = "agent"
  /\ UNCHANGED <<summary, react_rounds, notReactVars>>

\* the node "check_summary": lambda state: {}
check_summary ==
  /\ react_pc = "check_summary"
  /\ react_pc' = "should_summarize"
  /\ UNCHANGED <<messages, summary, react_rounds, react_log, notReactVars>>

RECURSIVE SumTokens(_)
SumTokens(msgs) ==
  IF msgs = <<>> THEN 0 ELSE msgs[1].tokens + SumTokens(Tail(msgs))

\* _count_tokens: the tokens of the human, AI and tool messages with content
count_tokens(msgs) ==
  SumTokens(SelectSeq(msgs, LAMBDA m : m.type \in {"human", "ai", "tool"} /\ m.tokens > 0))

\* _should_summarize: the route taken after check_summary
should_summarize(msgs) ==
  IF count_tokens(msgs) > summarizer_token_threshold THEN "summarize" ELSE "continue"

ShouldSummarizeEdge ==
  /\ react_pc = "should_summarize"
  /\ react_pc' = IF should_summarize(messages) = "summarize" THEN "summarize" ELSE "END"
  /\ UNCHANGED <<messages, summary, react_rounds, react_log, notReactVars>>

\* mutant: messages[:-1], only the last message is kept
AllButLastOne(msgs) == SubSeq(msgs, 1, IF Len(msgs) > 1 THEN Len(msgs) - 1 ELSE 0)

\* messages[:-2], the messages _summarize_conversation removes
AllButLastTwo(msgs) == SubSeq(msgs, 1, IF Len(msgs) > 2 THEN Len(msgs) - 2 ELSE 0)

\* _summarize_conversation: one summarizer call; the summary is replaced and
\* all but the last two messages are removed
summarize_conversation ==
  /\ react_pc = "summarize"
  /\ summary' = Some([extends |-> summary # None, covers |-> Len(messages)])
  /\ messages' = SubSeq(messages, Len(AllButLastTwo(messages)) + 1, Len(messages))
  /\ react_log' = Append(react_log, LlmCall("summarize"))
  /\ react_pc' = "END"
  /\ UNCHANGED <<react_rounds, notReactVars>>

\* the AI messages without tool calls of a message list, by position
FinalAnswers(msgs) ==
  {i \in 1..Len(msgs) : msgs[i].type = "ai" /\ msgs[i].tool_calls = <<>>}

\* mutant: the search runs from the first message on
ainvoke_index_forward(msgs) ==
  IF FinalAnswers(msgs) = {} THEN 0
  ELSE CHOOSE i \in FinalAnswers(msgs) : \A j \in FinalAnswers(msgs) : i <= j

\* ESMAAgent.ainvoke: the search through reversed(result["messages"]) for an
\* AIMessage without tool calls; 0 when there is none
ainvoke_index(msgs) ==
  IF FinalAnswers(msgs) = {} THEN 0
  ELSE CHOOSE i \in FinalAnswers(msgs) : \A j \in FinalAnswers(msgs) : j <= i

NoResponseGenerated == [text |-> "No response generated"]

\* what ESMAAgent.ainvoke returns for the messages the graph run ended with
ainvoke_result(msgs) ==
  IF ainvoke_index(msgs) = 0 THEN NoResponseGenerated
  ELSE msgs[ainvoke_index(msgs)].content

\* the history a thread's checkpoint may hold when a turn starts
Histories ==
  {<<>>} \cup {<<HumanMessage(n), AnswerMessage(n)>> : n \in TokenSizes}

\* a summary left by an earlier turn of a thread that has a history
EarlierSummary == Some([extends |-> FALSE, covers |-> 2])

\* graph.ainvoke({"messages": [HumanMessage(content=message)]}, config): the
\* new message is added to what the checkpoint of the thread holds
ReactInit ==
  /\ \E history \in Histories, n \in TokenSizes :
       messages = Append(history, HumanMessage(n))
  /\ summary \in {None} \cup (IF Len(messages) > 1 THEN {EarlierSummary} ELSE {})
  /\ react_pc = "agent"
  /\ react_rounds = 0
  /\ react_log = <<>>

ReactIdle ==
  /\ messages = <<>>
  /\ summary = None
  /\ react_pc = "idle"
  /\ react_rounds = 0
  /\ react_log = <<>>

ReactNext ==
  \/ agent_node
  \/ ToolRouterEdge
  \/ tools_node
  \/ check_summary
  \/ ShouldSummarizeEdge
  \/ summarize_conversation

\* ------------------------------------------------------------------------
\* Warehouse clients (esma/utils/bigquery_client.py)
\* ------------------------------------------------------------------------

\* threads running tools at the same time (concurrent requests, parallel
\* tool calls)
MaxThreads == 2

Threads == 1..MaxThreads

Databases == {"enaho", "geih"}

\* BigQueryClient.__init__: the object as constructed
NewClient(database_name) ==
  [database_name |-> database_name, _engine |-> None, _db |-> None]

\* the client thread t works on: the one get_client returned to it
ClientOf(t) == threads[t].client[1]

\* get_client, the test "database_name not in cls._instances"
GetClientCheck(t) ==
  /\ threads[t].pc = "get_client"
  /\ threads' = [threads EXCEPT ![t].pc =
       IF threads[t].database_name \notin DOMAIN _instances
       THEN "construct" ELSE "return"]
  /\ UNCHANGED <<_instances, clients, engines, notClientVars>>

\* get_client, cls(database_name)
GetClientConstruct(t) ==
  /\ threads[t].pc = "construct"
  /\ clients' = Append(clients, NewClient(threads[t].database_name))
  /\ threads' = [threads EXCEPT ![t].pc = "store", ![t].constructed = Some(Len(clients) + 1)]
  /\ UNCHANGED <<_instances, engines, notClientVars>>

\* get_client, cls._instances[database_name] = ...
GetClientStore(t) ==
  /\ threads[t].pc = "store"
  /\ _instances' =
       [d \in DOMAIN _instances \cup {threads[t].database_name} |->
          IF d = threads[t].database_name
          THEN threads[t].constructed[1] ELSE _instances[d]]
  /\ threads' = [threads EXCEPT ![t].pc = "return"]
  /\ UNCHANGED <<clients, engines, notClientVars>>

\* get_client, return cls._instances[database_name]
GetClientReturn(t) ==
  /\ threads[t].pc = "return"
  /\ threads' = [threads EXCEPT
       ![t].pc = "db",
       ![t].client = Some(_instances[threads[t].database_name])]
  /\ UNCHANGED <<_instances, clients, engines, notClientVars>>

\* the property db, the test "self._db is None"
DbCheck(t) ==
  /\ threads[t].pc = "db"
  /\ threads' = [threads EXCEPT ![t].pc =
       IF clients[ClientOf(t)]._db = None THEN "engine" ELSE "done"]
  /\ UNCHANGED <<_instances, clients, engines, notClientVars>>

\* the property engine, the test "self._engine is None"
EngineCheck(t) ==
  /\ threads[t].pc = "engine"
  /\ threads' = [threads EXCEPT ![t].pc =
       IF clients[ClientOf(t)]._engine = None THEN "create_engine" ELSE "create_db"]
  /\ UNCHANGED <<_instances, clients, engines, notClientVars>>

\* the property engine, self._engine = create_engine(...)
EngineCreate(t) ==
  /\ threads[t].pc = "create_engine"
  /\ engines' = Append(engines, [kind |-> "engine", client |-> ClientOf(t)])
  /\ clients' = [clients EXCEPT ![ClientOf(t)]._engine = Some(Len(engines) + 1)]
  /\ threads' = [threads EXCEPT ![t].pc = "create_db"]
  /\ UNCHANGED <<_instances, notClientVars>>

\* the property db, self._db = SQLDatabase(self.engine)
DbCreate(t) ==
  /\ threads[t].pc = "create_db"
  /\ engines' = Append(engines, [kind |-> "db", client |-> ClientOf(t)])
  /\ clients' = [clients EXCEPT ![ClientOf(t)]._db = Some(Len(engines) + 1)]
  /\ threads' = [threads EXCEPT ![t].pc = "done"]
  /\ UNCHANGED <<_instances, notClientVars>>

\* every thread is about to call BigQueryClient.get_client(database) and
\* then use client.db, as the SQL tools do; the registry is empty
ClientInit ==
  /\ _instances = <<>>
  /\ clients = <<>>
  /\ engines = <<>>
  /\ threads \in [Threads -> {[pc |-> "get_client", database_name |-> d,
                               constructed |-> None, client |-> None] : d \in Databases}]

ClientIdle ==
  /\ _instances = <<>>
  /\ clients = <<>>
  /\ engines = <<>>
  /\ threads = <<>>

ClientNext ==
  \E t \in Threads :
    \/ GetClientCheck(t)
    \/ GetClientConstruct(t)
    \/ GetClientStore(t)
    \/ GetClientReturn(t)
    \/ DbCheck(t)
    \/ EngineCheck(t)
    \/ EngineCreate(t)
    \/ DbCreate(t)

\* ------------------------------------------------------------------------
\* HTTP API (esma/api/app.py, esma/agents/esma.py)
\* ------------------------------------------------------------------------

\* HTTP requests handled at the same time or one after another
MaxRequests == 2

Requests == 1..MaxRequests

\* f"esma-chat-{str(uuid.uuid4())}", with the n-th UUID drawn standing as n
GeneratedThreadId(n) == <<"esma-chat-", n>>

\* thread ids a client may send of its own
ClientThreadIds == {<<"thread-a">>}

\* the conversation of a thread nothing was stored for
EmptyConversation == [messages |-> <<>>, summary |-> None]

\* mutant: every conversation is filed under one key, whatever the thread_id
checkpoint_key_shared(thread_id) == <<"thread">>

\* the key the agent's one MemorySaver files a conversation under: the
\* thread_id of config = {"configurable": {"thread_id": thread_id}}
checkpoint_key(thread_id) == thread_id

\* what the checkpointer holds under a key
Stored(key) ==
  IF key \in DOMAIN checkpoints THEN checkpoints[key] ELSE EmptyConversation

\* the checkpointer after a conversation is put under a key
Put(key, conversation) ==
  [k \in DOMAIN checkpoints \cup {key} |->
     IF k = key THEN conversation ELSE checkpoints[k]]

NewRequest ==
  [pc |-> "new", endpoint |-> "none", sent |-> None, thread_id |-> None,
   conversation |-> EmptyConversation, touched |-> {}, status |-> 0,
   response |-> None, returned |-> None, escaped |-> FALSE]

InFlight(r) == requests[r].pc \in {"load", "agent", "return"}

\* what a client puts in ChatRequest.thread_id: nothing, a thread id of its
\* own, the empty string, or a thread id the API generated before
SentThreadIds ==
  {None} \cup {Some(id) : id \in ClientThreadIds \cup {<<"">>}
                               \cup {GeneratedThreadId(n) : n \in 1..uuids}}

\* mutant: a new thread id whatever the request holds
thread_id_always_new(sent, n) == GeneratedThreadId(n)

\* request.thread_id or f"esma-chat-{str(uuid.uuid4())}", n standing for the
\* UUID drawn: None and the empty string are falsy
thread_id_or_new(sent, n) ==
  IF sent = None \/ sent = Some(<<"">>) THEN GeneratedThreadId(n) ELSE sent[1]

\* the first lines of chat and chat_stream: the thread id and the config of
\* the turn.  chat_stream then returns its StreamingResponse, status 200 with
\* the thread id in the X-Thread-ID header, before the agent has run.
Begin(r, endpoint, sent) ==
  LET thread_id == thread_id_or_new(sent, uuids + 1)
  IN /\ requests' = [requests EXCEPT
          ![r].pc = "load",
          ![r].endpoint = endpoint,
          ![r].sent = sent,
          ![r].thread_id = Some(thread_id),
          ![r].status = IF endpoint = "chat_stream" THEN 200 ELSE @,
          ![r].returned = IF endpoint = "chat_stream" THEN Some(thread_id) ELSE @]
     /\ uuids' = IF thread_id = GeneratedThreadId(uuids + 1) THEN uuids + 1 ELSE uuids

\* POST /chat arrives
chat_begin(r) ==
  /\ requests[r].pc = "new"
  /\ \E sent \in SentThreadIds : Begin(r, "chat", sent)
  /\ UNCHANGED <<checkpoints, notApiVars>>

\* POST /chat/stream arrives; the body is generated after the handler returned
chat_stream_begin(r) ==
  /\ requests[r].pc = "new"
  /\ \E sent \in SentThreadIds :
       Begin(r, "chat_stream", sent)
  /\ UNCHANGED <<checkpoints, notApiVars>>

\* POST /thread/new: a new thread id and nothing else
create_new_thread(r) ==
  /\ requests[r].pc = "new"
  /\ requests' = [requests EXCEPT
       ![r].pc = "done",
       ![r].endpoint = "thread_new",
       ![r].status = 200,
       ![r].returned = Some(GeneratedThreadId(uuids + 1))]
  /\ uuids' = uuids + 1
  /\ UNCHANGED <<checkpoints, notApiVars>>

\* graph.ainvoke / graph.astream({"messages": [HumanMessage(content=message)]},
\* config): the run starts from what the checkpointer holds for the thread,
\* adds the new message and checkpoints the input
ainvoke_load(r) ==
  /\ requests[r].pc = "load"
  /\ LET key == checkpoint_key(requests[r].thread_id[1])
         held == Stored(key)
         conversation == [held EXCEPT !.messages =
                            Append(@, [type |-> "human", request |-> r])]
     IN /\ requests' = [requests EXCEPT
             ![r].pc = "agent",
             ![r].conversation = conversation,
             ![r].touched = @ \cup {key}]
        /\ checkpoints' = Put(key, conversation)
  /\ UNCHANGED <<uuids, notApiVars>>

\* the steps of the graph up to the answer: the run's messages grow by the
\* answer and the step is checkpointed
ainvoke_agent(r) ==
  /\ requests[r].pc = "agent"
  /\ LET key == checkpoint_key(requests[r].thread_id[1])
         conversation == [requests[r].conversation EXCEPT !.messages =
                            Append(@, [type |-> "ai", request |-> r])]
     IN /\ requests' = [requests EXCEPT
             ![r].pc = "return",
             ![r].conversation = conversation,
             ![r].touched = @ \cup {key}]
        /\ checkpoints' = Put(key, conversation)
  /\ UNCHANGED <<uuids, notApiVars>>

\* the last AI message of the result, as ESMAAgent.ainvoke picks it
LastAnswer(msgs) ==
  LET answers == {i \in 1..Len(msgs) : msgs[i].type = "ai"}
  IN IF answers = {} THEN None
     ELSE Some(msgs[CHOOSE i \in answers : \A j \in answers : j <= i])

\* chat: ChatResponse(response=response, thread_id=thread_id)
chat_return(r) ==
  /\ requests[r].pc = "return"
  /\ requests[r].endpoint = "chat"
  /\ requests' = [requests EXCEPT
       ![r].pc = "done",
       ![r].status = 200,
       ![r].response = LastAnswer(requests[r].conversation.messages),
       ![r].returned = requests[r].thread_id]
  /\ UNCHANGED <<checkpoints, uuids, notApiVars>>

\* chat: agent.ainvoke raises inside the try block and the handler answers
\* with HTTPException(status_code=500, detail={error, detail})
chat_fail(r) ==
  /\ requests[r].pc = "agent"
  /\ requests[r].endpoint = "chat"
  /\ requests' = [requests EXCEPT
       ![r].pc = "done",
       ![r].status = 500,
       ![r].response = Some([error |-> "Failed to process request", detail |-> "str(e)"])]
  /\ UNCHANGED <<checkpoints, uuids, notApiVars>>

\* chat_stream: generate() has yielded the chunks of the answer and ends
chat_stream_end(r) ==
  /\ requests[r].pc = "return"
  /\ requests[r].endpoint = "chat_stream"
  /\ requests' = [requests EXCEPT
       ![r].pc = "done",
       ![r].response = LastAnswer(requests[r].conversation.messages)]
  /\ UNCHANGED <<checkpoints, uuids, notApiVars>>

\* chat_stream: agent.astream raises while generate() is iterated.  The
\* handler's try block was left when it returned the StreamingResponse, so
\* its except clause does not see the exception: the response has started
\* with status 200 and the exception leaves the generator uncaught.
chat_stream_fail(r) ==
  /\ requests[r].pc = "agent"
  /\ requests[r].endpoint = "chat_stream"
  /\ requests' = [requests EXCEPT ![r].pc = "done", ![r].escaped = TRUE]
  /\ UNCHANGED <<checkpoints, uuids, notApiVars>>

\* the agent was created at start-up; its checkpointer holds nothing yet
ApiInit ==
  /\ requests = [r \in Requests |-> NewRequest]
  /\ checkpoints = <<>>
  /\ uuids = 0

ApiIdle ==
  /\ requests = <<>>
  /\ checkpoints = <<>>
  /\ uuids = 0

ApiNext ==
  \E r \in Requests :
    \/ chat_begin(r)
    \/ chat_stream_begin(r)
    \/ create_new_thread(r)
    \/ ainvoke_load(r)
    \/ ainvoke_agent(r)
    \/ chat_return(r)
    \/ chat_fail(r)
    \/ chat_stream_end(r)
    \/ chat_stream_fail(r)

\* ------------------------------------------------------------------------
\* Documentation chunking: KnowledgeBaseBuilder.process_pdf_for_embedding
\* (scripts/pinecone/build_knowledge_base.py)
\* ------------------------------------------------------------------------

\* the longest token sequence chunked
MaxTokens == 1200

chunk_size == 650

overlap == 75

\* mutant: the windows advance by the chunk size less one overlap
step_size_one_overlap == chunk_size - overlap

step_size == chunk_size - (2 * overlap)

Min(a, b) == IF a <= b THEN a ELSE b

Max(a, b) == IF a >= b THEN a ELSE b

\* one iteration of "for i in range(0, len(tokens), step_size)": the window
\* around i, cut to the sequence, becomes a chunk unless it has fewer than
\* 50 tokens; the loop is left once a window reaches the end of the tokens.
\* A chunk record keeps the slice bounds in place of the decoded text.
chunk_iteration ==
  /\ chunk_pc = "loop"
  /\ chunk_i < pdf_tokens
  /\ LET start_idx == Max(0, chunk_i - overlap)
         end_idx == Min(pdf_tokens, chunk_i + chunk_size - overlap)
         chunk_tokens == end_idx - start_idx
     IN IF chunk_tokens < 50
        THEN /\ chunk_i' = chunk_i + step_size
             /\ UNCHANGED <<chunk_pc, chunks, chunk_number>>
        ELSE /\ chunks' = Append(chunks, [id |-> chunk_number,
                                          start_idx |-> start_idx,
                                          end_idx |-> end_idx])
             /\ chunk_number' = chunk_number + 1
             /\ IF end_idx >= pdf_tokens
                THEN chunk_pc' = "return" /\ chunk_i' = chunk_i
                ELSE chunk_pc' = chunk_pc /\ chunk_i' = chunk_i + step_size
  /\ UNCHANGED <<pdf_tokens, first_chunks, notChunkVars>>

\* the range is exhausted
chunk_exhausted ==
  /\ chunk_pc = "loop"
  /\ chunk_i >= pdf_tokens
  /\ chunk_pc' = "return"
  /\ UNCHANGED <<pdf_tokens, chunk_i, chunks, chunk_number, first_chunks, notChunkVars>>

\* return chunks
chunk_return ==
  /\ chunk_pc = "return"
  /\ chunk_pc' = "done"
  /\ UNCHANGED <<pdf_tokens, chunk_i, chunks, chunk_number, first_chunks, notChunkVars>>

\* process_pdf_for_embedding is called again with the same pdf_data
chunk_again ==
  /\ chunk_pc = "done"
  /\ first_chunks = None
  /\ first_chunks' = Some(chunks)
  /\ chunk_pc' = "loop"
  /\ chunk_i' = 0
  /\ chunks' = <<>>
  /\ chunk_number' = 0
  /\ UNCHANGED <<pdf_tokens, notChunkVars>>

\* tokens = encoding.encode(text); chunks = []; chunk_number = 0
ChunkInit ==
  /\ pdf_tokens \in 0..MaxTokens
  /\ chunk_pc = "loop"
  /\ chunk_i = 0
  /\ chunks = <<>>
  /\ chunk_number = 0
  /\ first_chunks = None

ChunkIdle ==
  /\ pdf_tokens = 0
  /\ chunk_pc = "idle"
  /\ chunk_i = 0
  /\ chunks = <<>>
  /\ chunk_number = 0
  /\ first_chunks = None

ChunkNext ==
  \/ chunk_iteration
  \/ chunk_exhausted
  \/ chunk_return
  \/ chunk_again

\* ------------------------------------------------------------------------
\* The offline scripts (scripts/pinecone/build_knowledge_base.py,
\* scripts/bigquery_setup/data_upload_pipeline.py,
\* scripts/documentation_preparation/parse_documentation.py,
\* scripts/documentation_preparation/dict_webscrapping_GEIH-2024.py)
\* ------------------------------------------------------------------------

\* the most files or tables one run handles
MaxUnits == 2

\* how the handling of one file or table goes: it succeeds, its load
\* (download, read, scrape) raises, or the step after the load (processing,
\* model call, upload) fails
UnitOutcomes == {"ok", "load_fails", "store_fails"}

UnitLists == UNION {[1..n -> UnitOutcomes] : n \in 0..MaxUnits}

\* a run of a script.  env_ok: the environment variables its clients need
\* are set; listing_ok: listing the bucket succeeds; units: the files or
\* tables found and how each goes; embed_ok, upsert_ok: the embedding and
\* the upsert calls succeed
Run(name, doc_type, env_ok, listing_ok, units, embed_ok, upsert_ok) ==
  [name |-> name, doc_type |-> doc_type, env_ok |-> env_ok,
   listing_ok |-> listing_ok, units |-> units,
   embed_ok |-> embed_ok, upsert_ok |-> upsert_ok]

BuilderRuns ==
  {Run("build_knowledge_base", d, e, l, u, b, p) :
     d \in {"schema", "documentation"}, e \in BOOLEAN, l \in BOOLEAN,
     u \in UnitLists, b \in BOOLEAN, p \in BOOLEAN}

UploadRuns ==
  {Run("data_upload_pipeline", "none", e, l, u, TRUE, TRUE) :
     e \in BOOLEAN, l \in BOOLEAN, u \in UnitLists}

ParserRuns ==
  {Run("parse_documentation", "none", e, l, u, TRUE, TRUE) :
     e \in BOOLEAN, l \in BOOLEAN, u \in UnitLists}

\* get_table_config() is a fixed, non-empty list of tables
ScraperRuns ==
  {Run("dict_webscrapping", "none", e, TRUE, u, TRUE, TRUE) :
     e \in BOOLEAN, u \in UnitLists \ {<<>>}}

LogEntry(step, ok, units) == [step |-> step, ok |-> ok, units |-> units]

UnitsOf(recs) == {recs[k].unit : k \in 1..Len(recs)}

\* the process ends with the given status
Exit(status) ==
  /\ script_pc' = "exited"
  /\ exit_status' = Some(status)

\* build_knowledge_base.main: the builder is constructed outside the try
\* block; without its API keys __init__ raises ValueError and the process
\* dies of the uncaught exception
kb_main ==
  /\ script_pc = "main"
  /\ script.name = "build_knowledge_base"
  /\ IF script.env_ok
     THEN script_pc' = "list" /\ UNCHANGED exit_status
     ELSE Exit(1)
  /\ UNCHANGED <<script, unit_i, results, records, script_log, main_return, notScriptVars>>

\* build_database_knowledge_base: target_files = self.list_target_files(...)
\* An exception of the listing reaches main, which logs it and raises again;
\* with no files the build returns and main reports success.
kb_list_target_files ==
  /\ script_pc = "list"
  /\ script.name = "build_knowledge_base"
  /\ script_log' = Append(script_log, LogEntry("list", script.listing_ok, {}))
  /\ IF ~script.listing_ok THEN Exit(1)
     ELSE IF script.units = <<>> THEN Exit(0)
     ELSE script_pc' = "files" /\ UNCHANGED exit_status
  /\ UNCHANGED <<script, unit_i, results, records, main_return, notScriptVars>>

\* the "id" of a record: f"{self.database_name}_{chunk_number}" for a chunk
\* of a PDF, f"{table_name}_{column_name_clean}" for a column of a schema
\* file (each schema file describes its own tables)
record_id(doc_type, unit, number) ==
  IF doc_type = "documentation"
  THEN [database |-> "survey", chunk_number |-> number]
  ELSE [table_name |-> unit, column_name |-> number]

\* process_pdf_for_embedding, process_table_columns: the n records made of
\* one file; chunk_number starts at 0 in every call
file_records(doc_type, unit, n) ==
  [k \in 1..n |-> [unit |-> unit, id |-> record_id(doc_type, unit, k - 1)]]

\* build_database_knowledge_base: one iteration of "for file_path in
\* target_files".  A file that loads gives one or two records.  load_files_from_gcs logs and raises when the load fails;
\* the except clause of the loop logs again and continues with the next
\* file.  After the last file a schema build without columns returns.
kb_load_file ==
  /\ script_pc = "files"
  /\ script.name = "build_knowledge_base"
  /\ unit_i <= Len(script.units)
  /\ LET outcome == script.units[unit_i]
     IN \E n \in {1, 2} :
        LET collected == IF outcome = "ok"
                         THEN records \o file_records(script.doc_type, unit_i, n)
                         ELSE records
        IN
        /\ script_log' = Append(script_log,
             LogEntry("load", outcome # "load_fails", {unit_i}))
        /\ results' = Append(results, outcome = "ok")
        /\ records' = collected
        /\ unit_i' = unit_i + 1
        /\ IF unit_i < Len(script.units)
           THEN UNCHANGED <<script_pc, exit_status>>
           ELSE IF script.doc_type = "schema" /\ collected = <<>>
           THEN Exit(0)
           ELSE script_pc' = "embed" /\ UNCHANGED exit_status
  /\ UNCHANGED <<script, main_return, notScriptVars>>

\* generate_embeddings(embedding_texts): one voyage_client.embed call for
\* the batch of all texts (none when there is no text); a failure is logged
\* and raised, and main logs it and raises again
kb_generate_embeddings ==
  /\ script_pc = "embed"
  /\ IF records = <<>>
     THEN /\ script_pc' = "upload"
          /\ UNCHANGED <<script_log, exit_status>>
     ELSE /\ script_log' = Append(script_log,
               LogEntry("embed", script.embed_ok, UnitsOf(records)))
          /\ IF script.embed_ok
             THEN script_pc' = "upload" /\ UNCHANGED exit_status
             ELSE Exit(1)
  /\ UNCHANGED <<script, unit_i, results, records, main_return, notScriptVars>>

\* create_pinecone_index and upload_to_pinecone: one index.upsert call for
\* the batch of all vectors (none when there is no vector); a failure is
\* logged and raised, and main logs it and raises again
kb_upload_to_pinecone ==
  /\ script_pc = "upload"
  /\ IF records = <<>>
     THEN Exit(0) /\ UNCHANGED script_log
     ELSE /\ script_log' = Append(script_log,
               LogEntry("upsert", script.upsert_ok, UnitsOf(records)))
          /\ IF script.upsert_ok THEN Exit(0) ELSE Exit(1)
  /\ UNCHANGED <<script, unit_i, results, records, main_return, notScriptVars>>

\* data_upload_pipeline.main: without GOOGLE_APPLICATION_CREDENTIALS the
\* script logs and calls sys.exit(1)
du_main ==
  /\ script_pc = "main"
  /\ script.name = "data_upload_pipeline"
  /\ IF script.env_ok
     THEN script_pc' = "list" /\ UNCHANGED exit_status
     ELSE Exit(1)
  /\ UNCHANGED <<script, unit_i, results, records, script_log, main_return, notScriptVars>>

\* process_all_data: data_files = self.get_files_from_bucket(file_prefix),
\* outside any try block
du_get_files_from_bucket ==
  /\ script_pc = "list"
  /\ script.name = "data_upload_pipeline"
  /\ script_log' = Append(script_log, LogEntry("list", script.listing_ok, {}))
  /\ IF script.listing_ok
     THEN script_pc' = "files" /\ UNCHANGED exit_status
     ELSE Exit(1)
  /\ UNCHANGED <<script, unit_i, results, records, main_return, notScriptVars>>

\* process_all_data: one iteration of the loop over data_files.  A download
\* that raises and an upload that returns False both give
\* results[file_path] = False, and the loop goes on.
du_process_file ==
  /\ script_pc = "files"
  /\ script.name = "data_upload_pipeline"
  /\ unit_i <= Len(script.units)
  /\ script_log' = Append(script_log,
       LogEntry("file", script.units[unit_i] = "ok", {unit_i}))
  /\ results' = Append(results, script.units[unit_i] = "ok")
  /\ unit_i' = unit_i + 1
  /\ UNCHANGED <<script, script_pc, records, main_return, exit_status, notScriptVars>>

\* data_upload_pipeline.main: exit(1) if failed_count > 0, else exit(0)
du_exit ==
  /\ script_pc = "files"
  /\ script.name = "data_upload_pipeline"
  /\ unit_i > Len(script.units)
  /\ LET failed_count == Len(SelectSeq(results, LAMBDA success : ~success))
     IN IF failed_count > 0 THEN Exit(1) ELSE Exit(0)
  /\ UNCHANGED <<script, unit_i, results, records, script_log, main_return, notScriptVars>>

\* parse_documentation.main: inside the try block the parser is constructed
\* and the files are listed; an exception of either, and an empty listing,
\* make main return 1
pd_main ==
  /\ script_pc = "main"
  /\ script.name = "parse_documentation"
  /\ IF ~script.env_ok
     THEN /\ main_return' = Some(1)
          /\ script_pc' = "returned"
          /\ UNCHANGED script_log
     ELSE /\ script_log' = Append(script_log, LogEntry("list", script.listing_ok, {}))
          /\ IF script.listing_ok /\ script.units # <<>>
             THEN script_pc' = "files" /\ UNCHANGED main_return
             ELSE script_pc' = "returned" /\ main_return' = Some(1)
  /\ UNCHANGED <<script, unit_i, results, records, exit_status, notScriptVars>>

\* parse_documentation.main: one iteration of the loop over the files
\* (read, send_to_openai, save_json).  An exception of any of the three
\* leaves the loop for the except clause, which returns 1; after the last
\* file main returns 0.
pd_process_file ==
  /\ script_pc = "files"
  /\ script.name = "parse_documentation"
  /\ unit_i <= Len(script.units)
  /\ script_log' = Append(script_log,
       LogEntry("file", script.units[unit_i] = "ok", {unit_i}))
  /\ results' = Append(results, script.units[unit_i] = "ok")
  /\ unit_i' = unit_i + 1
  /\ IF script.units[unit_i] # "ok"
     THEN script_pc' = "returned" /\ main_return' = Some(1)
     ELSE IF unit_i = Len(script.units)
     THEN script_pc' = "returned" /\ main_return' = Some(0)
     ELSE UNCHANGED <<script_pc, main_return>>
  /\ UNCHANGED <<script, records, exit_status, notScriptVars>>

\* if __name__ == "__main__": main()
\* The value main returned is dropped and the interpreter ends normally.
pd_end ==
  /\ script_pc = "returned"
  /\ script.name = "parse_documentation"
  /\ Exit(0)
  /\ UNCHANGED <<script, unit_i, results, records, script_log, main_return, notScriptVars>>

\* dict_webscrapping main: an exception of the scraper's construction is
\* logged and answered with sys.exit(1)
sc_main ==
  /\ script_pc = "main"
  /\ script.name = "dict_webscrapping"
  /\ IF script.env_ok
     THEN script_pc' = "files" /\ UNCHANGED exit_status
     ELSE Exit(1)
  /\ UNCHANGED <<script, unit_i, results, records, script_log, main_return, notScriptVars>>

\* GEIHDataDictionaryScraper.run: one iteration of the loop over the
\* tables; a table that fails adds one to failure_count and the loop goes on
sc_table ==
  /\ script_pc = "files"
  /\ script.name = "dict_webscrapping"
  /\ unit_i <= Len(script.units)
  /\ script_log' = Append(script_log,
       LogEntry("table", script.units[unit_i] = "ok", {unit_i}))
  /\ results' = Append(results, script.units[unit_i] = "ok")
  /\ unit_i' = unit_i + 1
  /\ UNCHANGED <<script, script_pc, records, main_return, exit_status, notScriptVars>>

\* run logs the two counts and returns; main returns and the interpreter
\* ends normally
sc_end ==
  /\ script_pc = "files"
  /\ script.name = "dict_webscrapping"
  /\ unit_i > Len(script.units)
  /\ Exit(0)
  /\ UNCHANGED <<script, unit_i, results, records, script_log, main_return, notScriptVars>>

ScriptInit ==
  /\ script \in BuilderRuns \cup UploadRuns \cup ParserRuns \cup ScraperRuns
  /\ script_pc = "main"
  /\ unit_i = 1
  /\ results = <<>>
  /\ records = <<>>
  /\ script_log = <<>>
  /\ main_return = None
  /\ exit_status = None

ScriptIdle ==
  /\ script = Run("none", "none", TRUE, TRUE, <<>>, TRUE, TRUE)
  /\ script_pc = "idle"
  /\ unit_i = 1
  /\ results = <<>>
  /\ records = <<>>
  /\ script_log = <<>>
  /\ main_return = None
  /\ exit_status = None

ScriptNext ==
  \/ kb_main
  \/ kb_list_target_files
  \/ kb_load_file
  \/ kb_generate_embeddings
  \/ kb_upload_to_pinecone
  \/ du_main
  \/ du_get_files_from_bucket
  \/ du_process_file
  \/ du_exit
  \/ pd_main
  \/ pd_process_file
  \/ pd_end
  \/ sc_main
  \/ sc_table
  \/ sc_end

\* ------------------------------------------------------------------------
\* Specifications
\* ------------------------------------------------------------------------

\* direct calls of the SQL tools
InitTools ==
  ToolInit /\ LinearIdle /\ ReactIdle /\ ClientIdle /\ ApiIdle /\ ChunkIdle
  /\ ScriptIdle

SpecTools == InitTools /\ [][ToolNext]_vars

\* one turn of the linear agent
InitLinear ==
  LinearInit /\ ToolIdle /\ ReactIdle /\ ClientIdle /\ ApiIdle /\ ChunkIdle
  /\ ScriptIdle

SpecLinear == InitLinear /\ [][LinearNext]_vars

\* one turn of the ReAct agent
InitReact ==
  ReactInit /\ ToolIdle /\ LinearIdle /\ ClientIdle /\ ApiIdle /\ ChunkIdle
  /\ ScriptIdle

SpecReact == InitReact /\ [][ReactNext]_vars

\* threads getting and using warehouse clients at the same time
InitClient ==
  ClientInit /\ ToolIdle /\ LinearIdle /\ ReactIdle /\ ApiIdle /\ ChunkIdle
  /\ ScriptIdle

SpecClient == InitClient /\ [][ClientNext]_vars

\* HTTP requests served by the one agent of the process
InitApi ==
  ApiInit /\ ToolIdle /\ LinearIdle /\ ReactIdle /\ ClientIdle /\ ChunkIdle
  /\ ScriptIdle

SpecApi == InitApi /\ [][ApiNext]_vars

\* chunking one PDF text, twice
InitChunk ==
  ChunkInit /\ ToolIdle /\ LinearIdle /\ ReactIdle /\ ClientIdle /\ ApiIdle
  /\ ScriptIdle

SpecChunk == InitChunk /\ [][ChunkNext]_vars

\* one run of an offline script
InitScripts ==
  ScriptInit /\ ToolIdle /\ LinearIdle /\ ReactIdle /\ ClientIdle /\ ApiIdle
  /\ ChunkIdle

SpecScripts == InitScripts /\ [][ScriptNext]_vars

\* ------------------------------------------------------------------------
\* Properties of the direct tool calls
\* ------------------------------------------------------------------------

ValidatorDone == tool_pc = "done" /\ tool_call.tool = "schema_validator"

ExecutorDone == tool_pc = "done" /\ tool_call.tool = "sql_executor"

\* keyword K stands in text q as a whole word, in any letter case
OccursAsWord(q, K) ==
  \E i \in 1..Len(q) :
    /\ i + Len(K) - 1 <= Len(q)
    /\ \A k \in 1..Len(K) : UpperChar(q[i + k - 1]) = K[k]
    /\ (i = 1 \/ ~IsWordChar(q[i - 1]))
    /\ (i + Len(K) - 1 = Len(q) \/ ~IsWordChar(q[i + Len(K)]))

ForbiddenIn(q) == {K \in Range(FORBIDDEN_OPERATIONS) : OccursAsWord(q, K)}

\* the response names operation K in a "Forbidden operation: K" error
NamesForbidden(response, K) ==
  \E i \in 1..Len(response.errors) :
    /\ response.errors[i].kind = "Forbidden operation"
    /\ response.errors[i].operation = K

\* C2 as stated: every forbidden keyword that occurs as a whole word is
\* named by a "Forbidden operation: K" error of an invalid result, also when
\* several different keywords occur in the same text.
C2_EveryKeywordNamed ==
  ValidatorDone =>
    \A K \in ForbiddenIn(tool_call.sql_query) :
      /\ tool_result.response.valid = FALSE
      /\ NamesForbidden(tool_result.response, K)

\* position of a keyword in FORBIDDEN_OPERATIONS
ListIndex(K) == CHOOSE i \in 1..Len(FORBIDDEN_OPERATIONS) : FORBIDDEN_OPERATIONS[i] = K

\* C2 amended: when at least one forbidden keyword occurs as a whole word in
\* any letter case, the result is invalid and its only error names the
\* keyword that comes first in the list INSERT, UPDATE, DELETE, DROP, ALTER,
\* TRUNCATE, CREATE, REPLACE among those that occur.
C2_FirstKeywordNamed ==
  (ValidatorDone /\ ForbiddenIn(tool_call.sql_query) # {}) =>
    LET found == ForbiddenIn(tool_call.sql_query)
        first == CHOOSE K \in found : \A J \in found : ListIndex(K) <= ListIndex(J)
    IN /\ tool_result.response.valid = FALSE
       /\ Len(tool_result.response.errors) = 1
       /\ NamesForbidden(tool_result.response, first)

\* C2 witness: a validation of a text holding two different forbidden
\* keywords, one of them in lower case, has returned.
C2_Witness ==
  /\ ValidatorDone
  /\ Cardinality(ForbiddenIn(tool_call.sql_query)) >= 2
  /\ \E i \in 1..Len(tool_call.sql_query) : IsLower(tool_call.sql_query[i])
  /\ tool_result.response.valid = FALSE

\* the validation found no forbidden keyword and went on to the tables
PastForbiddenCheck ==
  ValidatorDone /\ check_forbidden_operations(tool_call.sql_query).valid

MissingReferenced(q) == {t \in Range(extract_tables(q)) : t \notin UsableTables}

NoDuplicates(s) == \A i, j \in 1..Len(s) : s[i] = s[j] => i = j

DryRunSent(result) ==
  \E i \in 1..Len(result.accesses) : result.accesses[i].op = "dry_run"

ReportedMissing(result) ==
  {t \in DOMAIN result.response.table_validation : ~result.response.table_validation[t]}

C6_ValidIffNoErrors ==
  ValidatorDone =>
    (tool_result.response.valid <=> tool_result.response.errors = <<>>)

\* C6 witness: a validation failed in the dry run and carries its error.
C6_Witness ==
  /\ ValidatorDone
  /\ DryRunSent(tool_result)
  /\ ~tool_result.response.valid
  /\ Len(tool_result.response.errors) = 1

\* the executor call failed in the warehouse with a classified message
ExecutorFailed ==
  /\ ExecutorDone
  /\ ~tool_result.response.success
  /\ tool_result.accesses # <<>>

HasAny(msg, subs) == \E sub \in subs : Contains(Lower(msg), sub)

TimeoutWords == {<<"t","i","m","e","o","u","t">>}

PermissionWords == {<<"p","e","r","m","i","s","s","i","o","n">>, <<"a","c","c","e","s","s"," ","d","e","n","i","e","d">>}

RecognizedWords ==
  TimeoutWords \cup PermissionWords \cup
  {<<"q","u","o","t","a">>, <<"r","a","t","e"," ","l","i","m","i","t">>, <<"c","o","n","n","e","c","t","i","o","n">>, <<"n","e","t","w","o","r","k">>, <<"s","y","n","t","a","x">>, <<"n","o","t"," ","f","o","u","n","d">>, <<"d","o","e","s"," ","n","o","t"," ","e","x","i","s","t">>}

\* C8 as stated: "timeout" always gives TIMEOUT, "permission" or "access
\* denied" always gives PERMISSION_ERROR, none of the recognized substrings
\* gives EXECUTION_ERROR, each for all messages.
C8_EachClassAlways ==
  ExecutorFailed =>
    LET msg == tool_result.response.error[1]
        kind == tool_result.response.error_type
    IN /\ HasAny(msg, TimeoutWords) => kind = "TIMEOUT"
       /\ HasAny(msg, PermissionWords) => kind = "PERMISSION_ERROR"
       /\ ~HasAny(msg, RecognizedWords) => kind = "EXECUTION_ERROR"

\* C8 amended: "timeout" always gives TIMEOUT; "permission" or "access
\* denied" gives PERMISSION_ERROR when the message does not also contain
\* "timeout"; none of the recognized substrings gives EXECUTION_ERROR.
C8_ClassByPriority ==
  ExecutorFailed =>
    LET msg == tool_result.response.error[1]
        kind == tool_result.response.error_type
    IN /\ HasAny(msg, TimeoutWords) => kind = "TIMEOUT"
       /\ (HasAny(msg, PermissionWords) /\ ~HasAny(msg, TimeoutWords))
            => kind = "PERMISSION_ERROR"
       /\ ~HasAny(msg, RecognizedWords) => kind = "EXECUTION_ERROR"

\* C8 witness: a message with substrings of two classes, permission and
\* quota, was classified PERMISSION_ERROR.
C8_Witness ==
  /\ ExecutorFailed
  /\ HasAny(tool_result.response.error[1], PermissionWords)
  /\ HasAny(tool_result.response.error[1], {<<"q","u","o","t","a">>})
  /\ tool_result.response.error_type = "PERMISSION_ERROR"

\* ------------------------------------------------------------------------
\* Properties of a turn of the linear agent
\* ------------------------------------------------------------------------

\* C3 (as stated): a turn whose attempts all end with an error goes through
\* the retry branch at most max_retries times, then reaches format_answer and
\* ends; it is never cut off by the graph's step limit.
C3_AtMostMaxRetries ==
  /\ lin_retries <= max_retries
  /\ lin_pc # "GraphRecursionError"

RetryCountInRange(st) == st.retry_count \in 0..max_retries

\* C5: in a turn that starts with retry_count = 0, retry_count stays within
\* 0..max_retries, in the channels and in the state object should_retry
\* leaves; it changes only by +1 in the retry branch of should_retry or by
\* the reset to 0 in format_answer; it is 0 when the turn has ended.
C5_RetryCountBounded ==
  /\ [](/\ RetryCountInRange(state)
        /\ RetryCountInRange(should_retry(state).state)
        /\ lin_pc \in {"END", "GraphRecursionError"} => state.retry_count = 0)
  /\ [][\/ state.retry_count' = state.retry_count
        \/ /\ lin_pc = "should_retry"
           /\ should_retry(state).route = "retry"
           /\ state.retry_count' = state.retry_count + 1
        \/ /\ lin_pc = "format_answer"
           /\ state.retry_count' = 0]_vars

\* format_answer has run and the turn has ended
C5_Witness ==
  /\ lin_pc = "END"
  /\ state.final_answer # None
  /\ state.retry_count = 0

\* the clause generate_sql appends
LimitClause == <<" ">> \o KwLIMIT \o <<" ">> \o IntToText(sql_result_limit) \o <<";">>

EndsWith(s, suffix) ==
  /\ Len(s) >= Len(suffix)
  /\ SubSeq(s, Len(s) - Len(suffix) + 1, Len(s)) = suffix

\* the places where sub occurs in s
Occurrences(s, sub) == {i \in 1..Len(s) : MatchAt(s, sub, i)}

\* a LIMIT clause: the keyword LIMIT as a word of its own, in any letter case
HasLimitClause(sql) == SearchWholeWord(Upper(sql), KwLIMIT)

\* the SQL texts the executor handed to the warehouse in this turn
SentToWarehouse ==
  {lin_log[i].accesses[j].sql :
     i \in {i \in 1..Len(lin_log) : lin_log[i].tool = "sql_executor"},
     j \in {2}}

\* C7 (as stated): generated SQL with no LIMIT clause gets exactly one
\* trailing "LIMIT <sql_result_limit>" appended by generate_sql; SQL with a
\* LIMIT clause in any letter case is left unchanged; injecting again, in
\* generate_sql or in BigQueryClient.execute_query, appends nothing, so the
\* SQL sent to the warehouse never carries two appended clauses.
C7_LimitInjection ==
  (llm_sql # None /\ state.generated_sql # None) =>
    LET raw == llm_sql[1]
        sql == state.generated_sql[1]
    IN /\ ~HasLimitClause(raw) =>
            /\ EndsWith(sql, LimitClause)
            /\ Cardinality(Occurrences(Upper(sql), KwLIMIT)) = 1
       /\ HasLimitClause(raw) => sql = raw
       /\ generate_sql_text(sql) = sql
       /\ execute_query_sql(sql) = sql
       /\ \A sent \in SentToWarehouse :
            Cardinality(Occurrences(sent, LimitClause)) <= 1

\* ------------------------------------------------------------------------
\* Properties of a turn of the ReAct agent
\* ------------------------------------------------------------------------

\* the entries of a log in which the executor handed a SQL text to the
\* warehouse
Executions(log) ==
  {i \in 1..Len(log) : log[i].tool = "sql_executor" /\ log[i].accesses # <<>>}

\* entry i of the log has, before it, a validation of the same SQL text that
\* returned valid = true
ValidatedBefore(log, i) ==
  \E j \in 1..(i - 1) :
    /\ log[j].tool = "schema_validator"
    /\ log[j].sql_query = log[i].sql_query
    /\ log[j].valid

ExecutedOnlyAfterValid(log) == \A i \in Executions(log) : ValidatedBefore(log, i)

\* C1 (as stated): in the linear agent and in the ReAct agent, every call in
\* which the SQL executor sends a SQL text q to the warehouse comes after a
\* schema validator run on the same q, in the same turn, that returned
\* valid = true.
C1_ExecutedOnlyAfterValid ==
  /\ ExecutedOnlyAfterValid(lin_log)
  /\ ExecutedOnlyAfterValid(react_log)

\* ------------------------------------------------------------------------
\* Properties of the warehouse clients
\* ------------------------------------------------------------------------

\* the clients constructed for a database name
ConstructedFor(d) == {c \in 1..Len(clients) : clients[c].database_name = d}

\* the clients get_client has returned for a database name
ReturnedFor(d) ==
  {threads[t].client[1] :
     t \in {t \in Threads : threads[t].database_name = d /\ threads[t].client # None}}

\* the engines, or the wrappers, created for the clients of a database name
CreatedFor(d, kind) ==
  {e \in 1..Len(engines) : engines[e].kind = kind /\ engines[e].client \in ConstructedFor(d)}

\* C9 (as stated): for every database name, over any interleaving of
\* concurrent get_client calls, at most one BigQueryClient is constructed,
\* every call returns the same instance, and the engine and the SQLDatabase
\* wrapper are created at most once.
C9_OneClientPerDatabase ==
  \A d \in Databases :
    /\ Cardinality(ConstructedFor(d)) <= 1
    /\ Cardinality(ReturnedFor(d)) <= 1
    /\ Cardinality(CreatedFor(d, "engine")) <= 1
    /\ Cardinality(CreatedFor(d, "db")) <= 1

\* ------------------------------------------------------------------------
\* Properties of the HTTP API
\* ------------------------------------------------------------------------

\* two requests served at the same time
Concurrent(r1, r2) == r1 # r2 /\ InFlight(r1) /\ InFlight(r2)

\* C10 (as stated): the conversation state read or written while serving one
\* request is never read or written by another request in flight, two
\* requests with the same thread_id included.
C10_NoSharedConversation ==
  \A r1, r2 \in Requests :
    Concurrent(r1, r2) => requests[r1].touched \cap requests[r2].touched = {}

\* the requests whose messages a conversation holds
RequestsIn(conversation) ==
  {conversation.messages[i].request : i \in 1..Len(conversation.messages)}

\* C10 (amended): requests in flight with different thread ids share no
\* conversation state: neither touches what the other reads or writes, and
\* what the checkpointer holds for a thread, as what a request works on,
\* holds only messages of requests with that thread id.
C10_ThreadsIsolated ==
  /\ \A r1, r2 \in Requests :
       (Concurrent(r1, r2) /\ requests[r1].thread_id # requests[r2].thread_id)
         => requests[r1].touched \cap requests[r2].touched = {}
  /\ \A r \in Requests :
       requests[r].thread_id # None =>
         \A q \in RequestsIn(requests[r].conversation)
                  \cup RequestsIn(Stored(requests[r].thread_id[1])) :
           requests[q].thread_id = requests[r].thread_id

\* two requests in flight with different thread ids, each with its
\* conversation checkpointed
C10_Witness ==
  \E r1, r2 \in Requests :
    /\ Concurrent(r1, r2)
    /\ requests[r1].thread_id # requests[r2].thread_id
    /\ requests[r1].touched # {}
    /\ requests[r2].touched # {}

\* the chat calls that have computed their thread id
ChatCalls == {r \in Requests : requests[r].endpoint = "chat"}

\* the thread ids in use by the calls that have arrived
ThreadIdsInUse ==
  {requests[r].thread_id[1] : r \in {r \in Requests : requests[r].thread_id # None}}
  \cup {requests[r].returned[1] : r \in {r \in Requests : requests[r].returned # None}}

IsGenerated(id) == Len(id) = 2 /\ id[1] = "esma-chat-"

\* the call of r arrives in this step
Arrives(r) == requests[r].pc = "new" /\ requests'[r].pc # "new"

\* a call that omits thread_id gets a thread id of the generated form that no
\* earlier call used
FreshWhenOmitted ==
  [][\A r \in Requests :
       (Arrives(r) /\ requests'[r].endpoint = "chat" /\ requests'[r].sent = None) =>
         /\ IsGenerated(requests'[r].thread_id[1])
         /\ requests'[r].thread_id[1] \notin ThreadIdsInUse]_vars

\* C11 (as stated): a POST /chat call that supplies thread_id t runs the
\* agent under thread id t and returns t, so calls with the same thread_id
\* use the same checkpoint key; a call that omits thread_id uses and returns
\* a generated esma-chat-<uuid4> id that no earlier call used.
C11_ThreadIdKept ==
  /\ [](\A r \in ChatCalls :
          /\ requests[r].sent # None => requests[r].thread_id = requests[r].sent
          /\ requests[r].pc = "done" => requests[r].returned = requests[r].thread_id
          /\ requests[r].touched \subseteq {checkpoint_key(requests[r].thread_id[1])})
  /\ FreshWhenOmitted

\* a thread id the code keeps: one that is sent and is not the empty string
KeptThreadId(sent) == sent # None /\ sent # Some(<<"">>)

\* C11 (amended): a POST /chat call that supplies a non-empty thread_id t
\* runs the agent under thread id t and, when it succeeds, returns t; a call
\* that omits thread_id or sends the empty string runs under, and on success
\* returns, a generated esma-chat-<uuid4> id that no earlier call used.
C11_NonEmptyThreadIdKept ==
  /\ [](\A r \in ChatCalls :
          /\ KeptThreadId(requests[r].sent) => requests[r].thread_id = requests[r].sent
          /\ ~KeptThreadId(requests[r].sent) => IsGenerated(requests[r].thread_id[1])
          /\ (requests[r].pc = "done" /\ requests[r].status = 200)
               => requests[r].returned = requests[r].thread_id
          /\ requests[r].touched \subseteq {checkpoint_key(requests[r].thread_id[1])})
  /\ [][\A r \in Requests :
          (Arrives(r) /\ requests'[r].endpoint = "chat"
             /\ ~KeptThreadId(requests'[r].sent)) =>
            requests'[r].thread_id[1] \notin ThreadIdsInUse]_vars

\* two chat calls answered under the same thread id, sent by the second
C11_Witness ==
  \E r1, r2 \in ChatCalls :
    /\ r1 # r2
    /\ requests[r1].sent = None
    /\ requests[r2].sent = requests[r1].thread_id
    /\ requests[r1].returned = requests[r2].returned
    /\ requests[r2].status = 200

\* the turn of the linear agent is over: the graph reached END or the run was
\* aborted
TurnOver == lin_pc \in {"END", "GraphRecursionError"}

\* "I encountered an issue while processing your query: {state.error}"
Apology(error) ==
  Some([kind |-> "I encountered an issue while processing your query", info |-> error])

\* the model was called to word the answer
AnswerNarrated == \E i \in 1..Len(lin_log) : lin_log[i] = LlmCall("format_answer")

\* C12 (as stated): every linear-agent turn ends with final_answer set; when
\* error is set as format_answer runs, final_answer is the apology template
\* followed by the error text, and no model call is made for the answer.
C12_AnswerAlwaysSet ==
  TurnOver =>
    /\ state.final_answer # None
    /\ state.error # None =>
         /\ state.final_answer = Apology(state.error[1])
         /\ ~AnswerNarrated

\* ------------------------------------------------------------------------
\* C13: the SQL the executor reports and the SQL the warehouse receives
\* ------------------------------------------------------------------------

\* the SQL text handed to db.run by the executor call
SqlSent(result) == result.accesses[Len(result.accesses)].sql

\* C13 (as stated): in every successful executor response query_executed is
\* exactly the SQL text that was sent to the warehouse, also when the client
\* appended a LIMIT clause.
C13_ReportedQueryIsSent ==
  (ExecutorDone /\ tool_result.response.success) =>
    tool_result.response.query_executed = SqlSent(tool_result)

\* ------------------------------------------------------------------------
\* C14: validate_tables_exist and a failing introspection
\* ------------------------------------------------------------------------

\* the validator reached client.validate_tables_exist (the statement has no
\* forbidden keyword and references at least one table)
TablesChecked ==
  PastForbiddenCheck /\ extract_tables(tool_call.sql_query) # <<>>

\* C14: whenever the validator calls validate_tables_exist the call returns
\* a mapping whose keys are exactly the requested table names, each true
\* exactly when the introspection succeeded and the name is in the
\* usable-table list; when the introspection fails every requested table is
\* false, the validator reports the query invalid and sends no dry run.
C14_IntrospectionFailsClosed ==
  TablesChecked =>
    LET requested == Range(extract_tables(tool_call.sql_query))
        table_validation == tool_result.response.table_validation
        introspection_ok == tool_call.env.introspection_ok
    IN /\ DOMAIN table_validation = requested
       /\ \A t \in requested :
            table_validation[t] = (introspection_ok /\ t \in UsableTables)
       /\ ~introspection_ok =>
            /\ \A t \in requested : ~table_validation[t]
            /\ ~tool_result.response.valid
            /\ ~DryRunSent(tool_result)

\* a validation of a statement naming a usable table, whose introspection
\* failed although the dry run would have passed
C14_Witness ==
  /\ TablesChecked
  /\ ~tool_call.env.introspection_ok
  /\ ~tool_call.env.dry_run.raised
  /\ \E t \in Range(extract_tables(tool_call.sql_query)) : t \in UsableTables
  /\ ~tool_result.response.valid

\* ------------------------------------------------------------------------
\* C15: agent exceptions in the two chat endpoints
\* ------------------------------------------------------------------------

\* request r is over and its agent run raised: it ended without an answer
AgentRaised(r) ==
  /\ requests[r].pc = "done"
  /\ requests[r].endpoint \in {"chat", "chat_stream"}
  /\ \/ requests[r].response = None
     \/ "error" \in DOMAIN requests[r].response[1]

\* C15 (as stated): every exception the agent raises while POST /chat or
\* POST /chat/stream is served, during streaming included, is caught by the
\* handler and answered with HTTP 500 and a body holding error and detail;
\* no exception leaves the handler uncaught.
C15_AgentErrorsBecome500 ==
  \A r \in Requests :
    AgentRaised(r) =>
      /\ ~requests[r].escaped
      /\ requests[r].status = 500
      /\ requests[r].response # None
      /\ DOMAIN requests[r].response[1] = {"error", "detail"}

\* ------------------------------------------------------------------------
\* C16: where the summarization check stands in a ReAct turn
\* ------------------------------------------------------------------------

\* how far a turn has got: 0 while the agent and the tools alternate, then
\* the summarization check, its routing, the summarize step and the end
TurnPhase(pc) ==
  CASE pc = "check_summary"    -> 1
    [] pc = "should_summarize" -> 2
    [] pc = "summarize"        -> 3
    [] pc = "END"              -> 4
    [] OTHER                   -> 0

SummarizerCalls(log) ==
  Len(SelectSeq(log, LAMBDA e : e = LlmCall("summarize")))

LastMessage(msgs) == msgs[Len(msgs)]

C16_Step ==
  \* the check is entered only from the routing of an agent response that
  \* carries no tool calls
  /\ react_pc' = "check_summary" =>
       /\ react_pc = "tool_router"
       /\ LastMessage(messages).type = "ai"
       /\ LastMessage(messages).tool_calls = <<>>
  \* the summarize step is entered only from the check's routing
  /\ react_pc' = "should_summarize" => react_pc = "check_summary"
  /\ react_pc' = "summarize" => react_pc = "should_summarize"
  \* once the check has started the turn only moves on towards its end: no
  \* agent or tools step follows, and no second check or summarize step
  /\ TurnPhase(react_pc) >= 1 => TurnPhase(react_pc') > TurnPhase(react_pc)
  /\ SummarizerCalls(react_log') <= 1
  \* the tools node is entered only from the routing of an agent response
  \* that carries tool calls, and that routing only from the agent node
  /\ react_pc' = "tools" =>
       /\ react_pc = "tool_router"
       /\ LastMessage(messages).type = "ai"
       /\ LastMessage(messages).tool_calls # <<>>
  /\ react_pc' = "tool_router" =>
       /\ react_pc = "agent"
       /\ LastMessage(messages').type = "ai"

\* C16: in every ReAct turn the summarization check and the summarize step
\* run only after an agent response without tool calls, at most once, and no
\* agent or tools step follows them; the tools node runs only directly after
\* an agent response that carries tool calls.
C16_CheckOnlyAfterLastAnswer == [][C16_Step]_vars

\* a turn that ran tools, then answered, was checked and summarized
C16_Witness ==
  /\ react_pc = "END"
  /\ react_rounds >= 1
  /\ SummarizerCalls(react_log) = 1
  /\ \E i \in 1..Len(react_log) : react_log[i].tool \in custom_tools

\* ------------------------------------------------------------------------
\* C17: what summarization does to the summary and the history
\* ------------------------------------------------------------------------

LastTwo(msgs) == SubSeq(msgs, Len(msgs) - 1, Len(msgs))

C17_Step ==
  \* the routing after the check: summarize exactly when the count strictly
  \* exceeds the threshold, and the routing itself changes nothing
  /\ react_pc = "should_summarize" =>
       /\ react_pc' = IF count_tokens(messages) > summarizer_token_threshold
                      THEN "summarize" ELSE "END"
       /\ messages' = messages
       /\ summary' = summary
       /\ react_log' = react_log
  /\ react_pc = "check_summary" =>
       messages' = messages /\ summary' = summary /\ react_log' = react_log
  \* the summarize step: one summarizer call over the whole history, whose
  \* output becomes the summary; the last two messages are what is left
  /\ react_pc = "summarize" =>
       /\ count_tokens(messages) > summarizer_token_threshold
       /\ react_log' = Append(react_log, LlmCall("summarize"))
       /\ summary' = Some([extends |-> summary # None, covers |-> Len(messages)])
       /\ Len(messages) >= 2
       /\ messages' = LastTwo(messages)
       /\ react_pc' = "END"

\* C17: at the end of a ReAct turn, if the token count of the history
\* strictly exceeds summarizer_token_threshold the summarizer is called once,
\* its output replaces the summary and the history is reduced to exactly its
\* two most recent messages, unchanged and in order; otherwise the turn ends
\* with summary and history as they were.
C17_SummarizeKeepsLastTwo == [][C17_Step]_vars

\* a turn that ended without summarizing: its history counts exactly
\* summarizer_token_threshold tokens
EndsAtThreshold ==
  /\ react_pc = "END"
  /\ count_tokens(messages) = summarizer_token_threshold
  /\ SummarizerCalls(react_log) = 0

\* a turn whose history of more than two messages was summarized: two
\* messages are left, the answer last, under a summary that extends the
\* earlier one
C17_Witness ==
  /\ react_pc = "END"
  /\ SummarizerCalls(react_log) = 1
  /\ Len(messages) = 2
  /\ summary # None
  /\ summary[1].covers > 2
  /\ summary[1].extends
  /\ LastMessage(messages) \in {AnswerMessage(n) : n \in TokenSizes}

\* ------------------------------------------------------------------------
\* C18: the chunks of a token sequence
\* ------------------------------------------------------------------------

ChunkingDone == chunk_pc = "done"

CeilDiv(a, b) == (a + b - 1) \div b

ChunkTokens(c) == c.end_idx - c.start_idx

\* C18: chunking L tokens with window 650 and overlap 75: the k-th window
\* is the 650 tokens that begin 75 before position 500 * (k - 1), so window
\* starts advance by 500, and the k-th chunk is that window cut to the
\* sequence; every chunk has between 50 and 650 tokens; there are at most
\* ceil(L / 500) chunks; when L >= 50 every token position lies in some
\* chunk; and chunking the same tokens again gives the same chunks.
C18_ChunksCoverTokens ==
  ChunkingDone =>
    /\ \A k \in 1..Len(chunks) :
         /\ chunks[k].start_idx = Max(0, 500 * (k - 1) - 75)
         /\ chunks[k].end_idx = Min(pdf_tokens, 500 * (k - 1) - 75 + 650)
         /\ ChunkTokens(chunks[k]) >= 50
         /\ ChunkTokens(chunks[k]) <= 650
         /\ chunks[k].id = k - 1
    /\ Len(chunks) <= CeilDiv(pdf_tokens, 500)
    /\ pdf_tokens >= 50 =>
         \A position \in 0..(pdf_tokens - 1) :
           \E k \in 1..Len(chunks) :
             chunks[k].start_idx <= position /\ position < chunks[k].end_idx
    /\ first_chunks # None => chunks = first_chunks[1]

\* a text of more than two windows chunked a second time: three chunks, the
\* second of the full 650 tokens, the last one shorter
C18_Witness ==
  /\ ChunkingDone
  /\ first_chunks # None
  /\ Len(chunks) = 3
  /\ ChunkTokens(chunks[2]) = 650
  /\ ChunkTokens(chunks[3]) < 650
  /\ chunks[3].end_idx = pdf_tokens

\* ------------------------------------------------------------------------
\* C19: failures in the knowledge-base build
\* ------------------------------------------------------------------------

BuilderRun == script.name = "build_knowledge_base"

ScriptExited == script_pc = "exited"

\* C19 (as stated): in the knowledge-base build a failure of listing the
\* files, of loading a file, of generating the embeddings or of the upsert
\* aborts the run: the failed step is the last step made, so nothing is
\* embedded or upserted after a file failed to load, and the run ends with
\* the exception.
C19_FailureAbortsBuild ==
  BuilderRun =>
    /\ \A j \in 1..Len(script_log) :
         ~script_log[j].ok => j = Len(script_log)
    /\ (ScriptExited /\ \E j \in 1..Len(script_log) : ~script_log[j].ok) =>
         exit_status = Some(1)

\* ------------------------------------------------------------------------
\* C20: the exit status of the offline scripts
\* ------------------------------------------------------------------------

\* the environment variables were set and every step the run made, and
\* every file or table it handled, succeeded
RunSucceeds ==
  /\ script.env_ok
  /\ \A j \in 1..Len(script_log) : script_log[j].ok
  /\ \A k \in 1..Len(results) : results[k]

\* C20 (as stated): a script ends with exit status 0 exactly when every unit
\* of work succeeded, with a non-zero status when a file or table failed or
\* a required environment variable is not set; and the data upload handles
\* every file whether or not an earlier one failed.
C20_ExitStatusTellsSuccess ==
  ScriptExited =>
    /\ exit_status = Some(0) <=> RunSucceeds
    /\ (script.name = "data_upload_pipeline" /\ script.env_ok /\ script.listing_ok) =>
         Len(results) = Len(script.units)

\* ------------------------------------------------------------------------
\* C21: nothing is checked after a forbidden keyword was found
\* ------------------------------------------------------------------------

ForbiddenFound == ValidatorDone /\ ForbiddenIn(tool_call.sql_query) # {}

\* C21: when the validator finds a forbidden keyword it makes no warehouse
\* access (no client lookup, no table-list read, no dry run) and its result
\* carries exactly one error, the forbidden-operation error, with no
\* "Tables not found" error and no dry-run error beside it.
C21_ForbiddenEndsValidation ==
  ForbiddenFound =>
    /\ tool_result.accesses = <<>>
    /\ ~tool_result.response.valid
    /\ Len(tool_result.response.errors) = 1
    /\ tool_result.response.errors[1].kind = "Forbidden operation"
    /\ DOMAIN tool_result.response = {"valid", "errors", "warnings"}

\* a statement with a forbidden keyword that also references a table outside
\* the usable tables, validated while the introspection would have failed
\* and the dry run would have raised
C21_Witness ==
  /\ ForbiddenFound
  /\ MissingReferenced(tool_call.sql_query) # {}
  /\ ~tool_call.env.introspection_ok
  /\ tool_call.env.dry_run.raised
  /\ Len(tool_result.response.errors) = 1

\* ------------------------------------------------------------------------
\* C22: an error of select_tables
\* ------------------------------------------------------------------------

\* the errors select_tables sets when the model retries are exhausted and
\* when the model answers with a well-formed empty list
SelectTablesErrors ==
  { [kind |-> "Could not determine relevant tables after multiple attempts"],
    [kind |-> "No relevant tables found for this query in the database"] }

SelectTablesFailed == state.error # None /\ state.error[1] \in SelectTablesErrors

\* C22 (as stated): an error set by select_tables ends the turn: the route
\* taken after the pass leads to format_answer, which produces the apology
\* for that error, and select_tables is not run again in the turn.
C22_SelectErrorIsTerminal ==
  [][/\ (lin_pc = "should_retry" /\ SelectTablesFailed) => lin_pc' = "format_answer"
     /\ (lin_pc = "format_answer" /\ SelectTablesFailed) =>
          state'.final_answer = Apology(state.error[1])
     /\ (lin_pc' = "select_tables" /\ lin_pc # "select_tables") => ~SelectTablesFailed]_vars

\* ------------------------------------------------------------------------
\* C23: what a retry starts from
\* ------------------------------------------------------------------------

AttemptFields ==
  {"selected_tables", "retrieved_columns", "vector_search_metadata",
   "generated_sql", "sql_validation_result", "query_results", "error"}

\* select_tables is about to run again after the retry branch was taken
RetryEntered == lin_pc = "select_tables" /\ lin_retries > 0

\* C23 (as stated): when select_tables is re-entered through the retry
\* branch, selected_tables, retrieved_columns, vector_search_metadata,
\* generated_sql, sql_validation_result, query_results and error hold their
\* initial values: nothing the failed attempt wrote is left but retry_count.
C23_RetryStartsClean ==
  RetryEntered => \A f \in AttemptFields : state[f] = InitialState[f]

\* ------------------------------------------------------------------------
\* C24: the steps after an error
\* ------------------------------------------------------------------------

\* the steps of a pass that check error first
GuardedSteps == {"retrieve_columns", "generate_sql", "validate_sql", "execute_query"}

C24_Step ==
  (lin_pc \in GuardedSteps /\ state.error # None) =>
    /\ state' = state
    /\ lin_log' = lin_log
    /\ llm_sql' = llm_sql

\* C24: within a pass, a step from retrieve_columns to execute_query that
\* finds error set returns the state as it got it and calls no tool and no
\* model, so the error reaches should_retry as it was set.
C24_ErrorShortCircuits == [][C24_Step]_vars

\* retrieve_columns set the error and the pass went on to should_retry with
\* the retrieval as its last tool or model call
C24_Witness ==
  /\ lin_pc = "should_retry"
  /\ state.error = Some([kind |-> "Failed to retrieve column information"])
  /\ lin_log # <<>>
  /\ lin_log[Len(lin_log)] = [tool |-> "column_retriever"]

\* ------------------------------------------------------------------------
\* C25: what the linear agent executes
\* ------------------------------------------------------------------------

\* C25: every call of the SQL Executor by the linear agent comes right after
\* a call of the Schema Validator in the same pass that answered valid for
\* the same SQL text, and that text is the state's generated_sql.
C25_ExecutesTheValidatedSql ==
  /\ \A i \in 1..Len(lin_log) :
       lin_log[i].tool = "sql_executor" =>
         /\ i > 1
         /\ lin_log[i - 1].tool = "schema_validator"
         /\ lin_log[i - 1].valid
         /\ lin_log[i - 1].sql_query = lin_log[i].sql_query
  /\ (lin_pc = "should_retry" /\ lin_log # <<>>
        /\ lin_log[Len(lin_log)].tool = "sql_executor") =>
       /\ state.generated_sql = Some(lin_log[Len(lin_log)].sql_query)
       /\ state.sql_validation_result # None
       /\ state.sql_validation_result[1].valid

\* the executor has run on a validated query
C25_Witness ==
  /\ lin_pc = "should_retry"
  /\ lin_log # <<>>
  /\ lin_log[Len(lin_log)].tool = "sql_executor"
  /\ state.query_results # None

\* ------------------------------------------------------------------------
\* C26: the history a summarization leaves
\* ------------------------------------------------------------------------

\* the tool message at position i follows the AI message that asked for it
CallKept(msgs, i) ==
  \E j \in 1..(i - 1) :
    /\ msgs[j].type = "ai"
    /\ \E k \in 1..Len(msgs[j].tool_calls) :
         msgs[j].tool_calls[k].name = msgs[i].content.name

\* C26 (as stated): after a summarization every tool-result message left in
\* the history is preceded in the history by the assistant message whose
\* tool call it answers.
C26_SummaryKeepsCallBeforeResult ==
  (react_pc = "END" /\ SummarizerCalls(react_log) = 1) =>
    \A i \in 1..Len(messages) : messages[i].type = "tool" => CallKept(messages, i)

\* ------------------------------------------------------------------------
\* C27: what ainvoke returns
\* ------------------------------------------------------------------------

C27_Step ==
  \* the agent step that answers without tool calls appends the message
  \* ainvoke will find
  /\ (react_pc = "agent" /\ LastMessage(messages').tool_calls = <<>>) =>
       /\ Len(messages') = Len(messages) + 1
       /\ ainvoke_index(messages') = Len(messages')
  \* from there to the end of the run that message stays the last one
  /\ (TurnPhase(react_pc) \in 1..3) =>
       /\ LastMessage(messages') = LastMessage(messages)
       /\ ainvoke_index(messages') = Len(messages')
  \* the run ends only that way, and the sentinel is not returned
  /\ react_pc' = "END" =>
       /\ TurnPhase(react_pc) \in 2..3
       /\ ainvoke_index(messages') = Len(messages')
       /\ ainvoke_result(messages') = LastMessage(messages').content
       /\ ainvoke_result(messages') # NoResponseGenerated

\* C27: when the graph run of an ainvoke call completes, the text returned
\* is the content of the AI message the last agent step of the call
\* appended, with or without a summarization and whatever answers earlier
\* turns left in the history; the "No response generated" text is not
\* returned.
C27_ReturnsThisTurnsAnswer == [][C27_Step]_vars

\* a turn on a thread that holds an earlier answer ended after a tool round
C27_Witness ==
  /\ react_pc = "END"
  /\ react_rounds >= 1
  /\ SummarizerCalls(react_log) = 0
  /\ Cardinality(FinalAnswers(messages)) = 2
  /\ ainvoke_index(messages) = Len(messages)

\* ------------------------------------------------------------------------
\* C28: what an answer without error rests on
\* ------------------------------------------------------------------------

\* format_answer is about to run, or has run, with error unset
AnswersWithoutError == lin_pc \in {"format_answer", "END"} /\ state.error = None

\* the log ends with the validation and the execution of sql, apart from the
\* model call that words the answer
EndsWithExecutionOf(log, sql) ==
  LET n == IF log # <<>> /\ log[Len(log)] = LlmCall("format_answer")
           THEN Len(log) - 1 ELSE Len(log)
  IN /\ n >= 2
     /\ log[n].tool = "sql_executor" /\ log[n].sql_query = sql
     /\ log[n - 1].tool = "schema_validator" /\ log[n - 1].valid

\* C28: whenever format_answer runs with error unset, the attempt selected
\* tables, retrieved at least one column, generated SQL, had it answered
\* valid by the validator and executed with success, and query_results is
\* set from that execution; so "returned no results" and the narrated
\* answer come only after a successful execution.
C28_AnswerRestsOnExecution ==
  AnswersWithoutError =>
    /\ state.selected_tables # <<>>
    /\ state.retrieved_columns # <<>>
    /\ state.generated_sql \notin {None, Some(<<>>)}
    /\ state.sql_validation_result # None
    /\ state.sql_validation_result[1].valid
    /\ state.query_results # None
    /\ state.query_results[1].success
    /\ EndsWithExecutionOf(lin_log, state.generated_sql[1])
    /\ lin_retries = 0
    /\ lin_pc = "END" => state.final_answer # None

\* a turn ended with an answer and no error
C28_Witness ==
  /\ lin_pc = "END"
  /\ state.error = None
  /\ state.final_answer # None
  /\ state.query_results # None

\* ------------------------------------------------------------------------
\* C29: the identifiers of the records of a documentation build
\* ------------------------------------------------------------------------

\* a documentation build has sent its records to the index
DocumentationUpserted ==
  /\ BuilderRun
  /\ script.doc_type = "documentation"
  /\ \E j \in 1..Len(script_log) : script_log[j].step = "upsert"

\* C29 (as stated): within one documentation build the identifiers of the
\* upserted chunks are pairwise distinct across all PDF files, so no chunk
\* of one file overwrites a chunk of another file in the namespace.
C29_RecordIdsDistinct ==
  DocumentationUpserted =>
    \A j, k \in 1..Len(records) : j # k => records[j].id # records[k].id

\* ------------------------------------------------------------------------
\* C30: the model calls of a linear-agent turn
\* ------------------------------------------------------------------------

\* the model calls in a log, of one node or of all
ModelCalls(log) == Len(SelectSeq(log, LAMBDA e : e.tool = "llm"))

ModelCallsOf(log, node) == Len(SelectSeq(log, LAMBDA e : e = LlmCall(node)))

\* the passes begun so far: the first and one for every retry branch taken
Passes == lin_retries + 1

C30_Step ==
  \* one run of select_tables or of generate_sql makes at most max_retries
  \* calls, one run of format_answer at most one
  /\ ModelCallsOf(lin_log', "select_tables") - ModelCallsOf(lin_log, "select_tables")
       <= max_retries
  /\ ModelCallsOf(lin_log', "generate_sql") - ModelCallsOf(lin_log, "generate_sql")
       <= max_retries
  /\ ModelCallsOf(lin_log', "format_answer") <= 1
  \* there are at most max_retries + 1 passes
  /\ lin_retries' + 1 <= max_retries + 1
  \* the total
  /\ ModelCalls(lin_log') <= ((max_retries + 1) * 2 * max_retries) + 1

\* C30 (as stated): each pass of a linear-agent turn makes at most
\* max_retries model calls in select_tables and at most max_retries in
\* generate_sql, there are at most max_retries + 1 passes, and format_answer
\* makes at most one call, so that a turn makes at most
\* (max_retries + 1) * 2 * max_retries + 1 model calls.
C30_ModelCallsBounded == [][C30_Step]_vars

\* what does hold of the total: fewer calls than the bound the spec derives
ModelCallsBelowBound == ModelCalls(lin_log) <= ((max_retries + 1) * 2 * max_retries) + 1

====
